---- MODULE Spec2Model ----
(***************************************************************************)
(* A model of the AI tool discovery pipeline: the persistent domain        *)
(* blacklist (utils/blacklist.py), the two fetch_with_retries coroutines   *)
(* (agents/scraper_agent.py and its redefinition in                        *)
(* agents/pipeline_agent.py), the batched fetch_all_html, and the          *)
(* throttled LLM extraction loop of run_pipeline.                          *)
(***************************************************************************)
EXTENDS Integers, Sequences, FiniteSets, TLC

(***************************************************************************)
(* Program constants                                                       *)
(***************************************************************************)
FAILURE_THRESHOLD == 3
BATCH_SIZE == 4
LLM_CONCURRENCY_LIMIT == 2
FETCH_RETRIES == 3
FETCH_INITIAL_DELAY == 2
LLM_RETRIES == 3
LLM_DELAY == 10
NON_RETRYABLE_STATUS_CODES == {403, 404}

(***************************************************************************)
(* Bounds of the model                                                     *)
(***************************************************************************)
\* largest failure counter explored by the blacklist specification
MaxFailures == 4
\* most URLs run_search hands to one pipeline run
MaxUrls == 3
\* most URLs handed to fetch_all_html in the batching specification
MaxFetchUrls == 5
\* most URLs handed to scraper_agent.fetch_html_batch
MaxBatchUrls == 2
\* most direct calls of fetch_with_retries within one run
MaxCalls == 2
\* most lines of a robots.txt content
MaxRobotsLines == 3
\* most records the extraction loop hands to the filters of run_pipeline
MaxTools == 3
\* number of search queries of a run
MaxQueries == 2

(***************************************************************************)
(* Hosts and URLs.  A URL is a number; HostOf gives its netloc as written  *)
(* in the URL (urlparse keeps the case), Lower is str.lower().             *)
(***************************************************************************)
Hosts == {"a.com", "B.com"}

\* str.lower() on the strings of the model
Lower(h) == CASE h = "B.com" -> "b.com"
              [] h = "Tool"  -> "tool"
              [] h = "User-Agent" -> "user-agent"
              [] h = "Disallow"   -> "disallow"
              [] h = "DISALLOW"   -> "disallow"
              [] h = "Allow"      -> "allow"
              [] h = "HTTPS"      -> "https"
              [] h = "YouTube"    -> "youtube"
              [] h = "goFundme"   -> "gofundme"
              [] OTHER       -> h

Domains == {Lower(h) : h \in Hosts}

HostOf(u) == IF u % 2 = 1 THEN "a.com" ELSE "B.com"

\* the URL as the string the records carry
UrlStr(u) == "url" \o ToString(u)

\* a key absent from the response object, None in a record
None == "<none>"

(***************************************************************************)
(* Publish dates.  A publish_date value is given by its form and by what   *)
(* is written in it: "none" is None, "empty" the empty string, "date" a    *)
(* YYYY-MM-DD text, "datetime" a YYYY-MM-DDTHH:MM:SS text followed by tz   *)
(* ("" for no time zone, "Z", or a UTC offset), "text_T" a text that holds *)
(* a T and is no ISO date-time, "text" a text without T that is no date.   *)
(* Days are counted from an epoch, sec is the second of the day.           *)
(***************************************************************************)
DateStr(form, day, sec, tz) == [form |-> form, day |-> day, sec |-> sec, tz |-> tz]

NoDate == DateStr("none", 0, 0, "")

\* timedelta(days=1) in seconds
SecondsPerDay == 86400

\* timedelta(days=7)
RECENCY_DAYS == 7

\* the instant, in seconds from the epoch, of a day and a second of it
Instant(day, sec) == day * SecondsPerDay + sec

\* datetime.now(timezone.utc) of the run: noon of day 100
Now == Instant(100, 43200)

\* the objects the inference service answers with: keys Title, Website,
\* ai_tool_annotation and Publish Date, each possibly absent
LLMObjects ==
    {[Title |-> "Tool", Website |-> "w.ai", ai_tool_annotation |-> "ai_tool",
      PublishDate |-> NoDate],
     [Title |-> "tool", Website |-> "w.ai", ai_tool_annotation |-> "ai_tool",
      PublishDate |-> DateStr("date", 50, 0, "")],
     [Title |-> "Tool", Website |-> None, ai_tool_annotation |-> None,
      PublishDate |-> NoDate]}

\* what an inference call can give: a completion holding a JSON object, a
\* completion that is no JSON object, one whose braces do not parse, a
\* rate-limit error, another service error
LLMResponses ==
    {[kind |-> "json", data |-> d] : d \in LLMObjects} \cup
    {[kind |-> k, data |-> None] :
        k \in {"text", "bad_json", "RateLimitError", "APIError"}}

\* what a robots.txt request can give: a 200 with a content that allows or
\* disallows the paths of the run, a status other than 200, an error
RobotsResponses == {"allow", "disallow", "non200", "error"}

\* what a page request can give: a status with the decoded text, a transport
\* error (aiohttp.ClientError, asyncio.TimeoutError), another exception
PageResponses ==
    {[kind |-> "http", status |-> 200, text |-> "<html>"],
     [kind |-> "http", status |-> 200, text |-> ""],
     [kind |-> "http", status |-> 503, text |-> ""],
     [kind |-> "http", status |-> 404, text |-> ""],
     [kind |-> "http", status |-> 500, text |-> ""],
     [kind |-> "ClientError"],
     [kind |-> "Exception"]}

VARIABLES
    \* PersistentBlacklist: the exclusion set, the counter map, the store file
    domains, failures, store,
    \* number of record_failure calls made by the fetch of each URL
    recorded,
    \* position of run_pipeline (or of the driver of the specification)
    pc,
    \* the URL list being fetched, offset of the current batch
    urls, batch_i,
    \* the fetch_with_retries coroutines started so far, by URL
    task,
    \* fetch_all_html's html_map and error_list (the URLs of its records)
    html_map, error_list,
    \* scraper_agent._html_fetch_cache and prompt_loader._robots_cache
    html_fetch_cache, robots_cache,
    \* the URLs whose host was in the exclusion set when their fetch started,
    \* and the network requests, as <<url, "robots" | "page">>, issued for them
    excluded_at_start, net_log,
    \* extract_all_tool_info: the results list, and the coroutine of
    \* extract_tool_info_with_llm_throttled_with_retry for the current page
    results, ex,
    \* _llm_semaphore's value and the inference calls in flight
    llm_semaphore, llm_inflight,
    \* for the current page: what the inference service answered to each call,
    \* and the delays slept between the calls
    llm_log, llm_delays,
    \* what run_pipeline returned
    ret,
    \* which module's fetch_with_retries a directly called fetch runs
    fetcher,
    \* for a directly called fetch: the page responses it received and the
    \* delays it slept, in order
    page_log, delay_log,
    \* the direct calls of fetch_with_retries made so far, in order: the URL
    \* of each and the robots.txt and page requests it has issued
    calls,
    \* one call of prompt_loader.is_allowed_by_robots: the URL it is given
    \* with the answer to its robots.txt request, and what it returned
    robots_call, allowed,
    \* run_pipeline's locals after the extraction: tools (the records
    \* classified ai_tool) and deduped_tools
    tools, deduped_tools,
    \* run_search: what each backend's call for each query gave, the offset
    \* of each backend's current batch of queries, and the returned URLs
    search, search_i, found

blVars == <<domains, failures, store, recorded>>

fetchVars == <<urls, batch_i, task, html_map, error_list, html_fetch_cache,
               robots_cache, excluded_at_start, net_log>>

extractVars == <<results, ex, llm_semaphore, llm_inflight, llm_log, llm_delays>>

retryVars == <<fetcher, page_log, delay_log, calls>>

\* the variables only the specifications of single functions use
funVars == <<robots_call, allowed, tools, deduped_tools, search, search_i, found>>

auxVars == <<retryVars, funVars>>

vars == <<domains, failures, store, recorded, pc, fetchVars, extractVars, ret,
          auxVars>>

(***************************************************************************)
(* utils/blacklist.py                                                      *)
(***************************************************************************)
NoFailures == [d \in Domains |-> 0]

\* The store file is given by its form and by what is written in it.  The
\* form is "missing" (no file), "object" (the JSON object save() dumps, keys
\* blacklist and failures), "unreadable" (open(path, 'r') raises), "partial"
\* (an empty file or a proper prefix of a dump: json.load raises),
\* "not_object" (a JSON text that is no object: data.get raises) or
\* "bad_blacklist" (an object whose blacklist cannot be iterated: set()
\* raises).  blacklist is a list, failures maps each domain to its counter
\* (0 for an absent key, as failures.get(domain, 0) reads it).
EmptyStore == [form |-> "missing", blacklist |-> <<>>, failures |-> NoFailures]

LoadDomains_KeepPartial(s) ==
    IF s.form \in {"object", "partial"}
    THEN {s.blacklist[i] : i \in DOMAIN s.blacklist}
    ELSE {}

\* load(), self.domains: set() when the file is missing and when anything
\* of the try block raises, else set(data.get('blacklist', []))
LoadDomains(s) ==
    CASE s.form = "missing" -> {}
      [] s.form = "object"  -> {s.blacklist[i] : i \in DOMAIN s.blacklist}
      [] OTHER              -> {}

LoadFailures_Fresh(s) == NoFailures

\* load(), self.failures: {} in the same cases, else data.get('failures', {})
LoadFailures(s) ==
    CASE s.form = "missing" -> NoFailures
      [] s.form = "object"  -> s.failures
      [] OTHER              -> NoFailures

is_blacklisted_CaseSensitive(doms, domain) == domain \in doms

\* is_blacklisted(domain): domain.lower() in self.domains
is_blacklisted(doms, domain) == Lower(domain) \in doms

ThresholdReached_Strict(count) == count > FAILURE_THRESHOLD

\* the test of record_failure: self.failures[domain] >= self.threshold
ThresholdReached(count) == count >= FAILURE_THRESHOLD

\* record_failure(domain): the new counter map
FailuresAfter(fails, domain) ==
    [fails EXCEPT ![Lower(domain)] = fails[Lower(domain)] + 1]

\* record_failure(domain): the new exclusion set
DomainsAfter(doms, fails, domain) ==
    IF ThresholdReached(FailuresAfter(fails, domain)[Lower(domain)])
    THEN doms \cup {Lower(domain)}
    ELSE doms

\* list(self.domains): the elements of the set in some order
SetToList(S) ==
    CHOOSE l \in [1..Cardinality(S) -> S] : {l[i] : i \in DOMAIN l} = S

\* save() when it completes: the whole state is dumped over the file
SavedStore(doms, fails) ==
    [form |-> "object", blacklist |-> SetToList(doms), failures |-> fails]

\* no function is called directly: the variables that only the
\* specifications of single functions use are empty
AuxIdle ==
    /\ fetcher = None
    /\ page_log = <<>>
    /\ delay_log = <<>>
    /\ calls = <<>>
    /\ robots_call = None
    /\ allowed = None
    /\ tools = <<>>
    /\ deduped_tools = <<>>
    /\ search = <<>>
    /\ search_i = <<>>
    /\ found = {}

\* the module-level state of pipeline_agent before any extraction
ExtractInit ==
    /\ results = <<>>
    /\ ex = [pc |-> "ready", attempt |-> 0]
    /\ llm_semaphore = LLM_CONCURRENCY_LIMIT
    /\ llm_inflight = 0
    /\ llm_log = <<>>
    /\ llm_delays = <<>>

(***************************************************************************)
(* Specification SpecBlacklist: a PersistentBlacklist constructed over a   *)
(* missing store, then any sequence of record_failure and save calls.      *)
(***************************************************************************)
BlInit ==
    /\ store = EmptyStore
    /\ domains = LoadDomains(store)
    /\ failures = LoadFailures(store)
    /\ recorded = <<>>
    /\ pc = "blacklist"
    /\ urls = <<>>
    /\ batch_i = 0
    /\ task = <<>>
    /\ html_map = <<>>
    /\ error_list = <<>>
    /\ html_fetch_cache = <<>>
    /\ robots_cache = <<>>
    /\ excluded_at_start = {}
    /\ net_log = {}
    /\ ExtractInit
    /\ ret = <<>>
    /\ AuxIdle

record_failure(domain) ==
    /\ failures[Lower(domain)] < MaxFailures
    /\ failures' = FailuresAfter(failures, domain)
    /\ domains' = DomainsAfter(domains, failures, domain)
    /\ UNCHANGED <<store, recorded, pc, fetchVars, extractVars, ret>>
    /\ UNCHANGED auxVars

save ==
    /\ store' = SavedStore(domains, failures)
    /\ UNCHANGED <<domains, failures, recorded, pc, fetchVars, extractVars, ret>>
    /\ UNCHANGED auxVars

BlNext ==
    \/ \E h \in Hosts : record_failure(h)
    \/ save

SpecBlacklist == BlInit /\ [][BlNext]_vars

(***************************************************************************)
(* Specification SpecStore: the store file over several runs.  A process   *)
(* constructs a PersistentBlacklist over whatever the file holds, calls    *)
(* record_failure and save, and can stop at any point, also between the    *)
(* open(path, 'w') of save, which truncates the file, and the end of       *)
(* json.dump; the next process constructs its PersistentBlacklist over     *)
(* what is left.  pc is "stopped" (no process), "ready" (constructed),     *)
(* "saving" (inside save, the file opened) or "raised".                    *)
(***************************************************************************)
\* what the file can hold when the first process starts: nothing, a dump of
\* a counter map with its exclusion set, the same made unreadable or cut
\* short, a JSON text of another shape
Stores ==
    {EmptyStore} \cup
    {[SavedStore({d \in Domains : ThresholdReached(f[d])}, f)
          EXCEPT !.form = form] :
        f \in [Domains -> 0..MaxFailures],
        form \in {"object", "unreadable", "partial"}} \cup
    {[EmptyStore EXCEPT !.form = form] : form \in {"not_object", "bad_blacklist"}}

StoreInit ==
    /\ store \in Stores
    /\ domains = {}
    /\ failures = NoFailures
    /\ recorded = <<>>
    /\ pc = "stopped"
    /\ urls = <<>>
    /\ batch_i = 0
    /\ task = <<>>
    /\ html_map = <<>>
    /\ error_list = <<>>
    /\ html_fetch_cache = <<>>
    /\ robots_cache = <<>>
    /\ excluded_at_start = {}
    /\ net_log = {}
    /\ ExtractInit
    /\ ret = <<>>
    /\ AuxIdle

\* PersistentBlacklist(): __init__ sets the empty state, then load()
Construct ==
    /\ pc = "stopped"
    /\ domains' = LoadDomains(store)
    /\ failures' = LoadFailures(store)
    /\ pc' = "ready"
    /\ UNCHANGED <<store, recorded, fetchVars, extractVars, ret, auxVars>>

\* save() up to open(path, 'w'): the file is created or truncated; on a
\* file that cannot be read the open can raise as well
SaveOpen ==
    /\ pc = "ready"
    /\ \E opened \in (IF store.form = "unreadable" THEN BOOLEAN ELSE {TRUE}) :
          IF opened
          THEN /\ store' = [SavedStore(domains, failures) EXCEPT !.form = "partial"]
               /\ pc' = "saving"
          ELSE /\ pc' = "raised"
               /\ UNCHANGED store
    /\ UNCHANGED <<domains, failures, recorded, fetchVars, extractVars, ret,
                   auxVars>>

\* json.dump has written everything and the file is closed
SaveDump ==
    /\ pc = "saving"
    /\ store' = SavedStore(domains, failures)
    /\ pc' = "ready"
    /\ UNCHANGED <<domains, failures, recorded, fetchVars, extractVars, ret,
                   auxVars>>

\* the process stops; its PersistentBlacklist is gone, the file stays
Stop ==
    /\ pc # "stopped"
    /\ pc' = "stopped"
    /\ domains' = {}
    /\ failures' = NoFailures
    /\ UNCHANGED <<store, recorded, fetchVars, extractVars, ret, auxVars>>

StoreNext ==
    \/ Construct
    \/ \E h \in Hosts : pc = "ready" /\ record_failure(h)
    \/ SaveOpen
    \/ SaveDump
    \/ Stop

SpecStore == StoreInit /\ [][StoreNext]_vars

(***************************************************************************)
(* The fetch coroutines.  A coroutine is a record: pc is "robots" (waiting *)
(* for the robots.txt response), "get" (waiting for the page response),    *)
(* "sleep" (in asyncio.sleep(delay)), "returned" or "raised"; attempt and  *)
(* delay are its locals, result is the returned text or the raised error.  *)
(***************************************************************************)
Waiting(p, attempt, delay) ==
    [pc |-> p, attempt |-> attempt, delay |-> delay, result |-> ""]

Returned(text) ==
    [pc |-> "returned", attempt |-> 0, delay |-> 0, result |-> text]

Raised(error) ==
    [pc |-> "raised", attempt |-> 0, delay |-> 0, result |-> error]

\* the host of u is in the exclusion set, compared as the store keeps it
Excluded(u) == Lower(HostOf(u)) \in domains

Terminated(t) == t.pc \in {"returned", "raised"}

Min(a, b) == IF a < b THEN a ELSE b

\* is_allowed_by_robots on a cached or just received content
RobotsAllowed(content) == content # "disallow"

\* the request a coroutine issues when it enters state t
NetOf(u, t) ==
    CASE t.pc = "robots" -> {<<u, "robots">>}
      [] t.pc = "get"    -> {<<u, "page">>}
      [] OTHER           -> {}

\* the requests of NetOf that net_log keeps
Logged(u, t, excl) == IF u \in excl THEN NetOf(u, t) ELSE {}

\* _html_fetch_cache[url] = ... : written on every way out of a fetch
CacheAfter(cache, u, t) ==
    CASE t.pc = "returned" -> (u :> t.result) @@ cache
      [] t.pc = "raised"   -> (u :> "") @@ cache
      [] OTHER             -> cache

\* one iteration of the retry loop, up to its first suspension: the robots
\* cache is consulted, then either robots.txt or the page is requested
PAttempt(u, attempt, delay, rcache) ==
    IF HostOf(u) \in DOMAIN rcache
    THEN IF RobotsAllowed(rcache[HostOf(u)])
         THEN Waiting("get", attempt, delay)
         ELSE Returned("")
    ELSE Waiting("robots", attempt, delay)

\* prompt_loader.is_allowed_by_robots resumed with the robots.txt response:
\* only a 200 is cached; everything else means allowed
RobotsCacheAfter(rcache, u, r) ==
    IF r \in {"allow", "disallow"} THEN (HostOf(u) :> r) @@ rcache ELSE rcache

AfterRobots(t, r) ==
    IF r \in {"allow", "disallow"} /\ ~RobotsAllowed(r)
    THEN Returned("")
    ELSE Waiting("get", t.attempt, t.delay)

PAfterPage_NoRetry(t, r) ==
    IF r.kind = "http" /\ r.status = 200
    THEN Returned(r.text)
    ELSE Raised("ScrapingError")

\* pipeline_agent.fetch_with_retries resumed with the page response
PAfterPage(t, r) ==
    CASE r.kind = "http" /\ r.status = 200 -> Returned(r.text)
      [] r.kind = "http" /\ r.status = 503 /\ t.attempt < FETCH_RETRIES - 1 ->
            Waiting("sleep", t.attempt, t.delay)
      [] r.kind = "http" /\ ~(r.status = 200)
                         /\ ~(r.status = 503 /\ t.attempt < FETCH_RETRIES - 1) ->
            \* raised inside the try, caught by "except Exception", raised again
            Raised("ScrapingError")
      [] r.kind = "ClientError" /\ t.attempt < FETCH_RETRIES - 1 ->
            Waiting("sleep", t.attempt, t.delay)
      [] r.kind = "ClientError" /\ ~(t.attempt < FETCH_RETRIES - 1) ->
            Raised("ScrapingError")
      [] OTHER -> Raised("ScrapingError")

\* the step of coroutine u to state t, with its writes
TaskStep(u, t) ==
    /\ task' = [task EXCEPT ![u] = t]
    /\ net_log' = net_log \cup Logged(u, t, excluded_at_start)
    /\ html_fetch_cache' = CacheAfter(html_fetch_cache, u, t)
    /\ UNCHANGED excluded_at_start

PRobotsResponse(u, r) ==
    /\ pc = "fetch"
    /\ u \in DOMAIN task
    /\ task[u].pc = "robots"
    /\ robots_cache' = RobotsCacheAfter(robots_cache, u, r)
    /\ TaskStep(u, AfterRobots(task[u], r))
    /\ UNCHANGED <<blVars, pc, urls, batch_i, html_map, error_list,
                   extractVars, ret>>
    /\ UNCHANGED auxVars

PPageResponse(u, r) ==
    /\ pc = "fetch"
    /\ u \in DOMAIN task
    /\ task[u].pc = "get"
    /\ TaskStep(u, PAfterPage(task[u], r))
    /\ UNCHANGED <<blVars, pc, urls, batch_i, html_map, error_list, robots_cache,
                   extractVars, ret>>
    /\ UNCHANGED auxVars

\* asyncio.sleep(delay) is over: delay *= 2; continue
PWake(u) ==
    /\ pc = "fetch"
    /\ u \in DOMAIN task
    /\ task[u].pc = "sleep"
    /\ TaskStep(u, PAttempt(u, task[u].attempt + 1, task[u].delay * 2, robots_cache))
    /\ UNCHANGED <<blVars, pc, urls, batch_i, html_map, error_list, robots_cache,
                   extractVars, ret>>
    /\ UNCHANGED auxVars

(***************************************************************************)
(* pipeline_agent.fetch_all_html                                            *)
(***************************************************************************)
\* batch = urls[i:i+BATCH_SIZE], as the set of its positions
BatchPositions(i) == (i + 1) .. Min(i + BATCH_SIZE, Len(urls))

Batch(i) == {urls[k] : k \in BatchPositions(i)}

GatherDone_FirstCompleted(batch) == \E u \in batch : Terminated(task[u])

\* await asyncio.gather(*tasks, return_exceptions=True) returns when every
\* coroutine of the batch has returned or raised
GatherDone(batch) == \A u \in batch : Terminated(task[u])

IsException(t) == t.pc = "raised"

MapAfter_NoEntryOnError(hm, u, t) ==
    IF IsException(t) THEN hm ELSE (u :> t.result) @@ hm

\* the body of "for url, result in zip(batch, results)": html_map
MapAfter(hm, u, t) ==
    IF IsException(t) THEN (u :> "") @@ hm ELSE (u :> t.result) @@ hm

ErrorsAfter_Always(el, u, t) == Append(el, u)

\* the same loop body: error_list
ErrorsAfter(el, u, t) == IF IsException(t) THEN Append(el, u) ELSE el

RECURSIVE ZipMap(_, _, _)
ZipMap(hm, k, hi) ==
    IF k > hi THEN hm
    ELSE ZipMap(MapAfter(hm, urls[k], task[urls[k]]), k + 1, hi)

RECURSIVE ZipErrors(_, _, _)
ZipErrors(el, k, hi) ==
    IF k > hi THEN el
    ELSE ZipErrors(ErrorsAfter(el, urls[k], task[urls[k]]), k + 1, hi)

\* tasks = [fetch_with_retries(url, session) for url in batch]; gather starts
\* them, each runs to its first suspension
StartBatch ==
    /\ pc = "fetch"
    /\ batch_i < Len(urls)
    /\ Batch(batch_i) \cap DOMAIN task = {}
    /\ task' = [u \in DOMAIN task \cup Batch(batch_i) |->
                   IF u \in Batch(batch_i)
                   THEN PAttempt(u, 0, FETCH_INITIAL_DELAY, robots_cache)
                   ELSE task[u]]
    /\ excluded_at_start' =
           excluded_at_start \cup {u \in Batch(batch_i) : Excluded(u)}
    /\ net_log' = net_log \cup
           UNION {Logged(u, task'[u], excluded_at_start') : u \in Batch(batch_i)}
    /\ html_fetch_cache' =
           [u \in DOMAIN html_fetch_cache \cup
                  {v \in Batch(batch_i) : Terminated(task'[v])} |->
               IF u \in Batch(batch_i) /\ Terminated(task'[u])
               THEN ""
               ELSE html_fetch_cache[u]]
    /\ UNCHANGED <<blVars, pc, urls, batch_i, html_map, error_list, robots_cache,
                   extractVars, ret>>
    /\ UNCHANGED auxVars

\* gather has returned: the results are zipped into html_map and error_list
CollectBatch ==
    /\ pc = "fetch"
    /\ batch_i < Len(urls)
    /\ Batch(batch_i) \subseteq DOMAIN task
    /\ GatherDone(Batch(batch_i))
    /\ html_map' = ZipMap(html_map, batch_i + 1, Min(batch_i + BATCH_SIZE, Len(urls)))
    /\ error_list' = ZipErrors(error_list, batch_i + 1,
                               Min(batch_i + BATCH_SIZE, Len(urls)))
    /\ batch_i' = batch_i + BATCH_SIZE
    /\ UNCHANGED <<blVars, pc, urls, task, html_fetch_cache, robots_cache,
                   excluded_at_start, net_log, extractVars, ret>>
    /\ UNCHANGED auxVars

\* return html_map, error_list
FetchAllReturn ==
    /\ pc = "fetch"
    /\ batch_i >= Len(urls)
    /\ pc' = "extract"
    /\ UNCHANGED <<blVars, fetchVars, extractVars, ret>>
    /\ UNCHANGED auxVars

FetchStep ==
    \/ StartBatch
    \/ \E u \in DOMAIN task, r \in RobotsResponses : PRobotsResponse(u, r)
    \/ \E u \in DOMAIN task, r \in PageResponses : PPageResponse(u, r)
    \/ \E u \in DOMAIN task : PWake(u)
    \/ CollectBatch
    \/ FetchAllReturn

(***************************************************************************)
(* Specification SpecFetchAll: one call of fetch_all_html on a list of     *)
(* distinct URLs, up to its return.                                        *)
(***************************************************************************)
UrlLists(n) == {[k \in 1..m |-> k] : m \in 0..n}

\* the stores a previous run can have left
InitStores ==
    {EmptyStore,
     SavedStore({"b.com"}, [NoFailures EXCEPT !["a.com"] = FAILURE_THRESHOLD - 1,
                                              !["b.com"] = FAILURE_THRESHOLD])}

FetchAllInit ==
    /\ store = EmptyStore
    /\ domains = LoadDomains(store)
    /\ failures = LoadFailures(store)
    /\ recorded = <<>>
    /\ pc = "fetch"
    /\ urls \in UrlLists(MaxFetchUrls)
    /\ batch_i = 0
    /\ task = <<>>
    /\ html_map = <<>>
    /\ error_list = <<>>
    /\ html_fetch_cache = <<>>
    /\ robots_cache = <<>>
    /\ excluded_at_start = {}
    /\ net_log = {}
    /\ ExtractInit
    /\ ret = <<>>
    /\ AuxIdle

SpecFetchAll == FetchAllInit /\ [][FetchStep]_vars

(***************************************************************************)
(* scraper_agent.extract_tool_info_with_llm and the throttled retry        *)
(* wrapper of pipeline_agent                                               *)
(***************************************************************************)
ToolInfo(title, website, annotation, publish_date, url) ==
    [title |-> title, website |-> website, ai_tool_annotation |-> annotation,
     publish_date |-> publish_date, source |-> url]

\* data.get(key, default)
Get(value, default) == IF value = None THEN default ELSE value

\* the "Fallback: minimal ToolInfo" of extract_tool_info_with_llm
FallbackToolInfo(u) == ToolInfo("", UrlStr(u), "not_ai_tool", NoDate, UrlStr(u))

Return(tool) == [ok |-> TRUE, tool |-> tool, exc |-> None]

Raise(exc) == [ok |-> FALSE, tool |-> None, exc |-> exc]

\* extract_tool_info_with_llm resumed with the service's answer r: a JSON
\* object gives its record, a non-JSON completion the fallback record, and
\* whatever is raised inside the try (the service's errors, json.loads's)
\* leaves as ExtractionError
extract_tool_info_with_llm(u, r) ==
    CASE r.kind = "json" ->
            Return(ToolInfo(Get(r.data.Title, ""),
                            Get(r.data.Website, UrlStr(u)),
                            Get(r.data.ai_tool_annotation, "not_ai_tool"),
                            r.data.PublishDate,
                            UrlStr(u)))
      [] r.kind = "text" -> Return(FallbackToolInfo(u))
      [] OTHER -> Raise("ExtractionError")

HasBody_Any(u) == u \in DOMAIN html_map

\* urls_and_htmls = [(url, html) for url, html in html_map.items() if html]
HasBody(u) == u \in DOMAIN html_map /\ html_map[u] # ""

urls_and_htmls == SelectSeq(urls, HasBody)

MayCall_Unthrottled == TRUE

\* an inference call is issued by the loop of extract_all_tool_info when it
\* is not awaiting one, and once "async with _llm_semaphore" has a slot
MayCall == ex.pc \in {"ready", "sleep"} /\ llm_semaphore > 0

\* the except clause of extract_tool_info_with_llm_throttled_with_retry:
\* RateLimitError is retried after a sleep while attempt < retries - 1
Retried(exc, attempt) == exc = "RateLimitError" /\ attempt < LLM_RETRIES - 1

\* the loop calls the wrapper for the next page (or the wrapper wakes from
\* its sleep): the slot is taken and the request sent
LLMCall ==
    /\ pc = "extract"
    /\ Len(results) < Len(urls_and_htmls)
    /\ MayCall
    /\ llm_semaphore' = llm_semaphore - 1
    /\ llm_inflight' = llm_inflight + 1
    /\ ex' = [pc |-> "call",
              attempt |-> IF ex.pc = "sleep" THEN ex.attempt + 1 ELSE 0]
    /\ llm_log' = IF ex.pc = "sleep" THEN llm_log ELSE <<>>
    /\ llm_delays' = IF ex.pc = "sleep" THEN llm_delays ELSE <<>>
    /\ UNCHANGED <<blVars, pc, fetchVars, results, ret>>
    /\ UNCHANGED auxVars

Released_Kept(semaphore) == semaphore

\* the way out of "async with _llm_semaphore", by return or by exception:
\* the semaphore's value after release()
Released(semaphore) == semaphore + 1

\* the call ends: the slot is released, then the record is appended, or the
\* wrapper sleeps before a retry, or the exception leaves run_pipeline
LLMResponse(r) ==
    /\ pc = "extract"
    /\ ex.pc = "call"
    /\ llm_semaphore' = Released(llm_semaphore)
    /\ llm_inflight' = llm_inflight - 1
    /\ llm_log' = Append(llm_log, r)
    /\ LET u == urls_and_htmls[Len(results) + 1]
           res == extract_tool_info_with_llm(u, r)
       IN  CASE res.ok ->
                  /\ results' = Append(results, res.tool)
                  /\ ex' = [pc |-> "ready", attempt |-> 0]
                  /\ UNCHANGED <<pc, llm_delays>>
             [] ~res.ok /\ Retried(res.exc, ex.attempt) ->
                  /\ ex' = [pc |-> "sleep", attempt |-> ex.attempt]
                  /\ llm_delays' = Append(llm_delays, LLM_DELAY)
                  /\ UNCHANGED <<pc, results>>
             [] OTHER ->
                  /\ ex' = [pc |-> "raised", attempt |-> ex.attempt]
                  /\ pc' = "raised"
                  /\ UNCHANGED <<results, llm_delays>>
    /\ UNCHANGED <<blVars, fetchVars, ret>>
    /\ UNCHANGED auxVars

(***************************************************************************)
(* pipeline_agent.run_pipeline                                             *)
(***************************************************************************)
IsAiTool_Any(t) == TRUE

\* getattr(tool, 'ai_tool_annotation', None) == 'ai_tool'
IsAiTool(t) == t.ai_tool_annotation = "ai_tool"

DedupKey_CaseSensitive(t) == <<t.website, t.title>>

\* key = (website.lower(), title.lower())
DedupKey(t) == <<Lower(t.website), Lower(t.title)>>

RECURSIVE Dedup(_, _, _)
Dedup(ts, seen, out) ==
    IF ts = <<>> THEN out
    ELSE IF DedupKey(Head(ts)) \in seen
         THEN Dedup(Tail(ts), seen, out)
         ELSE Dedup(Tail(ts), seen \cup {DedupKey(Head(ts))},
                    Append(out, Head(ts)))

\* seven_days_ago = datetime.now(timezone.utc) - timedelta(days=7)
seven_days_ago == Now - RECENCY_DAYS * SecondsPerDay

\* the seconds a time zone suffix is ahead of UTC
UtcOffset(tz) == CASE tz = "+01:00" -> 3600
                   [] OTHER -> 0

\* date_str.replace('Z', '+00:00')
ReplaceZ(date_str) ==
    IF date_str.tz = "Z" THEN [date_str EXCEPT !.tz = "+00:00"] ELSE date_str

\* a parsed datetime, and the ValueError of a text that does not parse
Parsed(ok, aware, instant) == [ok |-> ok, aware |-> aware, instant |-> instant]

\* datetime.fromisoformat: a datetime that is aware when an offset is
\* written, naive else; ValueError for another text
fromisoformat(date_str) ==
    IF date_str.form = "datetime" /\ date_str.tz # "Z"
    THEN Parsed(TRUE, date_str.tz # "",
                Instant(date_str.day, date_str.sec) - UtcOffset(date_str.tz))
    ELSE Parsed(FALSE, FALSE, 0)

\* datetime.strptime(date_str, '%Y-%m-%d').replace(tzinfo=timezone.utc)
strptime_utc(date_str) ==
    IF date_str.form = "date"
    THEN Parsed(TRUE, TRUE, Instant(date_str.day, 0))
    ELSE Parsed(FALSE, FALSE, 0)

\* the try block of the recency filter, from "if 'T' in date_str"
pub_date(date_str) ==
    IF date_str.form \in {"datetime", "text_T"}
    THEN fromisoformat(ReplaceZ(date_str))
    ELSE strptime_utc(date_str)

\* the body of the loop over deduped_tools: the tool is appended when its
\* date is None or "" ("if date_str" is false), when the parse raises, when "pub_date >= seven_days_ago" raises
\* TypeError (a naive pub_date against the aware seven_days_ago), and when
\* the comparison holds
Recent(t) ==
    \/ t.publish_date.form \in {"none", "empty"}
    \/ ~pub_date(t.publish_date).ok
    \/ ~pub_date(t.publish_date).aware
    \/ pub_date(t.publish_date).instant >= seven_days_ago

\* what a search backend gives for the queries of the run
\* (a failed query is logged and gives no link)
SearchResults ==
    {[ok |-> FALSE, links |-> {}]} \cup
    {[ok |-> TRUE, links |-> 1..k] : k \in 0..MaxUrls}

Merged(a, b) ==
    (IF a.ok THEN a.links ELSE {}) \cup (IF b.ok THEN b.links ELSE {})

\* urls = await run_search(); if not urls: return []
RunSearch(serper, serpapi) ==
    /\ pc = "search"
    /\ urls' = [k \in 1..Cardinality(Merged(serper, serpapi)) |-> k]
    /\ IF Merged(serper, serpapi) = {}
       THEN pc' = "done" /\ ret' = <<>>
       ELSE pc' = "fetch" /\ UNCHANGED ret
    /\ UNCHANGED <<blVars, batch_i, task, html_map, error_list, html_fetch_cache,
                   robots_cache, excluded_at_start, net_log, extractVars>>
    /\ UNCHANGED auxVars

\* after the extraction loop: classification filter, deduplication, recency
\* filter, the summary, blacklist.save(), return filtered_tools
Finish ==
    /\ pc = "extract"
    /\ ex.pc = "ready"
    /\ Len(results) = Len(urls_and_htmls)
    /\ tools' = SelectSeq(results, IsAiTool)
    /\ deduped_tools' = Dedup(tools', {}, <<>>)
    /\ ret' = SelectSeq(deduped_tools', Recent)
    /\ store' = SavedStore(domains, failures)
    /\ pc' = "done"
    /\ UNCHANGED <<domains, failures, recorded, fetchVars, extractVars>>
    /\ UNCHANGED <<retryVars, robots_call, allowed, search, search_i, found>>

Init ==
    /\ store \in InitStores
    /\ domains = LoadDomains(store)
    /\ failures = LoadFailures(store)
    /\ recorded = <<>>
    /\ pc = "search"
    /\ urls = <<>>
    /\ batch_i = 0
    /\ task = <<>>
    /\ html_map = <<>>
    /\ error_list = <<>>
    /\ html_fetch_cache = <<>>
    /\ robots_cache = <<>>
    /\ excluded_at_start = {}
    /\ net_log = {}
    /\ ExtractInit
    /\ ret = <<>>
    /\ AuxIdle

Next ==
    \/ \E serper \in SearchResults, serpapi \in SearchResults :
          RunSearch(serper, serpapi)
    \/ FetchStep
    \/ LLMCall
    \/ \E r \in LLMResponses : LLMResponse(r)
    \/ Finish

Spec == Init /\ [][Next]_vars

\* the numbers of the "Summary Report" that run_pipeline prints before it
\* saves the blacklist: num_total, num_success, num_fail and the remainder
SummaryReport ==
    [total      |-> Cardinality(DOMAIN html_map),
     successful |-> Cardinality({u \in DOMAIN html_map : html_map[u] # ""}),
     failed     |-> Len(error_list),
     skipped    |-> Cardinality(DOMAIN html_map)
                    - Cardinality({u \in DOMAIN html_map : html_map[u] # ""})
                    - Len(error_list)]

\* run_pipeline awaits nothing of the environment after the extraction
\* loop: once the loop is over, the filters, the prints and the save run
FairSpec == Spec /\ WF_vars(Finish)

(***************************************************************************)
(* scraper_agent.fetch_with_retries and fetch_html_batch                   *)
(***************************************************************************)
\* the first step of scraper_agent.fetch_with_retries: a blacklisted host
\* returns "" at once, else the retry loop is entered
SBegin(u, doms, rcache) ==
    IF is_blacklisted(doms, HostOf(u))
    THEN Returned("")
    ELSE PAttempt(u, 0, FETCH_INITIAL_DELAY, rcache)

SAfterPage_RetryNonRetryable(t, r) ==
    CASE r.kind = "http" /\ r.status = 200 -> Returned(r.text)
      [] r.kind = "http" /\ r.status # 200 /\ t.attempt < FETCH_RETRIES - 1 ->
            Waiting("sleep", t.attempt, t.delay)
      [] r.kind = "ClientError" /\ t.attempt < FETCH_RETRIES - 1 ->
            Waiting("sleep", t.attempt, t.delay)
      [] OTHER -> Raised("ScrapingError")

\* scraper_agent.fetch_with_retries resumed with the page response
SAfterPage(t, r) ==
    CASE r.kind = "http" /\ r.status = 200 -> Returned(r.text)
      [] r.kind = "http" /\ r.status # 200 /\ t.attempt < FETCH_RETRIES - 1
                         /\ r.status \notin NON_RETRYABLE_STATUS_CODES ->
            Waiting("sleep", t.attempt, t.delay)
      [] r.kind = "ClientError" /\ t.attempt < FETCH_RETRIES - 1 ->
            Waiting("sleep", t.attempt, t.delay)
      [] OTHER -> Raised("ScrapingError")

\* _html_fetch_cache[url] = "" is also written before the sleep that
\* follows a status other than 200, 503, 403 and 404
SCacheAfter(cache, u, t, r) ==
    IF SAfterPage(t, r).pc = "sleep" /\ r.kind = "http" /\ r.status # 503
    THEN (u :> "") @@ cache
    ELSE CacheAfter(cache, u, SAfterPage(t, r))

SRecordCalls_PerAttempt(t, r) ==
    IF r.kind = "http" /\ r.status = 200 THEN 0 ELSE 1

\* the number of blacklist.record_failure calls on that way: the
\* ScrapingError raised for a status is raised inside the try, so "except
\* Exception" catches it, records a second failure and raises again; the
\* one raised in an except clause leaves directly
SRecordCalls(t, r) ==
    CASE SAfterPage(t, r).pc # "raised" -> 0
      [] SAfterPage(t, r).pc = "raised" /\ r.kind = "http" -> 2
      [] OTHER -> 1

RECURSIVE FailuresAfterN(_, _, _)
FailuresAfterN(fails, domain, n) ==
    IF n = 0 THEN fails
    ELSE FailuresAfterN(FailuresAfter(fails, domain), domain, n - 1)

RECURSIVE DomainsAfterN(_, _, _, _)
DomainsAfterN(doms, fails, domain, n) ==
    IF n = 0 THEN doms
    ELSE DomainsAfterN(DomainsAfter(doms, fails, domain),
                       FailuresAfter(fails, domain), domain, n - 1)

\* tasks = [fetch_with_retries(url, session) for url in urls]; gather
\* starts them all, each runs to its first suspension
SStart ==
    /\ pc = "scrape"
    /\ DOMAIN task = {}
    /\ DOMAIN html_map = {}
    /\ Len(urls) > 0
    /\ task' = [u \in Batch(0) |-> SBegin(u, domains, robots_cache)]
    /\ excluded_at_start' = {u \in Batch(0) : Excluded(u)}
    /\ net_log' = net_log \cup
           UNION {Logged(u, task'[u], excluded_at_start') : u \in Batch(0)}
    /\ html_fetch_cache' =
           [u \in {v \in Batch(0) : Terminated(task'[v])} |-> ""]
    /\ UNCHANGED <<blVars, pc, urls, batch_i, html_map, error_list, robots_cache,
                   extractVars, ret>>
    /\ UNCHANGED auxVars

SRobotsResponse(u, r) ==
    /\ pc \in {"scrape", "scrape_raised"}
    /\ u \in DOMAIN task
    /\ task[u].pc = "robots"
    /\ robots_cache' = RobotsCacheAfter(robots_cache, u, r)
    /\ TaskStep(u, AfterRobots(task[u], r))
    /\ UNCHANGED <<blVars, pc, urls, batch_i, html_map, error_list,
                   extractVars, ret>>
    /\ UNCHANGED auxVars

SPageResponse(u, r) ==
    /\ pc \in {"scrape", "scrape_raised"}
    /\ u \in DOMAIN task
    /\ task[u].pc = "get"
    /\ task' = [task EXCEPT ![u] = SAfterPage(task[u], r)]
    /\ html_fetch_cache' = SCacheAfter(html_fetch_cache, u, task[u], r)
    /\ UNCHANGED <<excluded_at_start, net_log>>
    /\ failures' = FailuresAfterN(failures, HostOf(u), SRecordCalls(task[u], r))
    /\ domains' = DomainsAfterN(domains, failures, HostOf(u),
                                SRecordCalls(task[u], r))
    /\ recorded' = IF SRecordCalls(task[u], r) = 0 THEN recorded
                   ELSE (u :> SRecordCalls(task[u], r)) @@ recorded
    /\ UNCHANGED <<store, pc, urls, batch_i, html_map, error_list, robots_cache,
                   extractVars, ret>>
    /\ UNCHANGED auxVars

SWake(u) ==
    /\ pc \in {"scrape", "scrape_raised"}
    /\ u \in DOMAIN task
    /\ task[u].pc = "sleep"
    /\ TaskStep(u, PAttempt(u, task[u].attempt + 1, task[u].delay * 2, robots_cache))
    /\ UNCHANGED <<blVars, pc, urls, batch_i, html_map, error_list, robots_cache,
                   extractVars, ret>>
    /\ UNCHANGED auxVars

\* await asyncio.gather(*tasks) raises the first exception of a task; the
\* other coroutines keep running
SGatherRaise ==
    /\ pc = "scrape"
    /\ \E u \in DOMAIN task : IsException(task[u])
    /\ pc' = "scrape_raised"
    /\ UNCHANGED <<blVars, fetchVars, extractVars, ret>>
    /\ UNCHANGED auxVars

\* every coroutine returned: results[url] = html for the zipped pairs
SGatherReturn ==
    /\ pc = "scrape"
    /\ DOMAIN task # {}
    /\ \A u \in DOMAIN task : task[u].pc = "returned"
    /\ html_map' = [u \in DOMAIN task |-> task[u].result]
    /\ pc' = "scraped"
    /\ UNCHANGED <<blVars, urls, batch_i, task, error_list, html_fetch_cache,
                   robots_cache, excluded_at_start, net_log, extractVars, ret>>
    /\ UNCHANGED auxVars

ScraperInit ==
    /\ store \in InitStores
    /\ domains = LoadDomains(store)
    /\ failures = LoadFailures(store)
    /\ recorded = <<>>
    /\ pc = "scrape"
    /\ urls \in UrlLists(MaxBatchUrls)
    /\ batch_i = 0
    /\ task = <<>>
    /\ html_map = <<>>
    /\ error_list = <<>>
    /\ html_fetch_cache = <<>>
    /\ robots_cache = <<>>
    /\ excluded_at_start = {}
    /\ net_log = {}
    /\ ExtractInit
    /\ ret = <<>>
    /\ AuxIdle

ScraperNext ==
    \/ SStart
    \/ \E u \in DOMAIN task, r \in RobotsResponses : SRobotsResponse(u, r)
    \/ \E u \in DOMAIN task, r \in PageResponses : SPageResponse(u, r)
    \/ \E u \in DOMAIN task : SWake(u)
    \/ SGatherRaise
    \/ SGatherReturn

SpecScraper == ScraperInit /\ [][ScraperNext]_vars

(***************************************************************************)
(* Specification SpecFetchOne: one direct call of fetch_with_retries, of   *)
(* scraper_agent or of pipeline_agent, on one URL, with the page responses *)
(* it receives and the delays it sleeps kept in order.                     *)
(***************************************************************************)
\* the call up to its first suspension
FBegin(u, doms, rcache) ==
    IF fetcher = "scraper_agent"
    THEN SBegin(u, doms, rcache)
    ELSE PAttempt(u, 0, FETCH_INITIAL_DELAY, rcache)

\* the call resumed with the page response
FAfterPage(t, r) ==
    IF fetcher = "scraper_agent" THEN SAfterPage(t, r) ELSE PAfterPage(t, r)

FCacheAfter(cache, u, t, r) ==
    IF fetcher = "scraper_agent"
    THEN SCacheAfter(cache, u, t, r)
    ELSE CacheAfter(cache, u, PAfterPage(t, r))

\* pipeline_agent.fetch_with_retries never calls blacklist.record_failure
FRecordCalls(t, r) ==
    IF fetcher = "scraper_agent" THEN SRecordCalls(t, r) ELSE 0

OneStart ==
    /\ pc = "one"
    /\ task = <<>>
    /\ task' = (urls[1] :> FBegin(urls[1], domains, robots_cache))
    /\ html_fetch_cache' = CacheAfter(html_fetch_cache, urls[1], task'[urls[1]])
    /\ UNCHANGED <<blVars, pc, urls, batch_i, html_map, error_list, robots_cache,
                   excluded_at_start, net_log, extractVars, ret, auxVars>>

OneRobotsResponse(r) ==
    /\ pc = "one"
    /\ urls[1] \in DOMAIN task
    /\ task[urls[1]].pc = "robots"
    /\ robots_cache' = RobotsCacheAfter(robots_cache, urls[1], r)
    /\ task' = [task EXCEPT ![urls[1]] = AfterRobots(task[urls[1]], r)]
    /\ html_fetch_cache' = CacheAfter(html_fetch_cache, urls[1], task'[urls[1]])
    /\ UNCHANGED <<blVars, pc, urls, batch_i, html_map, error_list,
                   excluded_at_start, net_log, extractVars, ret, auxVars>>

OnePageResponse(r) ==
    /\ pc = "one"
    /\ urls[1] \in DOMAIN task
    /\ task[urls[1]].pc = "get"
    /\ task' = [task EXCEPT ![urls[1]] = FAfterPage(task[urls[1]], r)]
    /\ html_fetch_cache' = FCacheAfter(html_fetch_cache, urls[1], task[urls[1]], r)
    /\ failures' = FailuresAfterN(failures, HostOf(urls[1]),
                                  FRecordCalls(task[urls[1]], r))
    /\ domains' = DomainsAfterN(domains, failures, HostOf(urls[1]),
                                FRecordCalls(task[urls[1]], r))
    /\ recorded' = IF FRecordCalls(task[urls[1]], r) = 0 THEN recorded
                   ELSE (urls[1] :> FRecordCalls(task[urls[1]], r)) @@ recorded
    /\ UNCHANGED store
    /\ page_log' = Append(page_log, r)
    /\ UNCHANGED <<pc, urls, batch_i, html_map, error_list, robots_cache,
                   excluded_at_start, net_log, extractVars, ret, funVars, fetcher,
                   delay_log, calls>>

\* asyncio.sleep(delay) is over: delay *= 2; continue
OneWake ==
    /\ pc = "one"
    /\ urls[1] \in DOMAIN task
    /\ task[urls[1]].pc = "sleep"
    /\ delay_log' = Append(delay_log, task[urls[1]].delay)
    /\ task' = [task EXCEPT ![urls[1]] =
                   PAttempt(urls[1], task[urls[1]].attempt + 1,
                            task[urls[1]].delay * 2, robots_cache)]
    /\ html_fetch_cache' = CacheAfter(html_fetch_cache, urls[1], task'[urls[1]])
    /\ UNCHANGED <<blVars, pc, urls, batch_i, html_map, error_list, robots_cache,
                   excluded_at_start, net_log, extractVars, ret, funVars, fetcher,
                   page_log, calls>>

FetchOneInit ==
    /\ store \in InitStores
    /\ domains = LoadDomains(store)
    /\ failures = LoadFailures(store)
    /\ recorded = <<>>
    /\ pc = "one"
    /\ urls \in {<<1>>, <<2>>}
    /\ batch_i = 0
    /\ task = <<>>
    /\ html_map = <<>>
    /\ error_list = <<>>
    /\ html_fetch_cache = <<>>
    /\ robots_cache = <<>>
    /\ excluded_at_start = {}
    /\ net_log = {}
    /\ ExtractInit
    /\ ret = <<>>
    /\ fetcher \in {"pipeline_agent", "scraper_agent"}
    /\ page_log = <<>>
    /\ delay_log = <<>>
    /\ calls = <<>>
    /\ robots_call = None
    /\ allowed = None
    /\ tools = <<>>
    /\ deduped_tools = <<>>
    /\ search = <<>>
    /\ search_i = <<>>
    /\ found = {}

FetchOneNext ==
    \/ OneStart
    \/ \E r \in RobotsResponses : OneRobotsResponse(r)
    \/ \E r \in PageResponses : OnePageResponse(r)
    \/ OneWake

SpecFetchOne == FetchOneInit /\ [][FetchOneNext]_vars

\* every request of the fetch ends, with a response, an error or the
\* timeout of 30 seconds, and every asyncio.sleep ends
FairFetchOne == SpecFetchOne /\ WF_vars(FetchOneNext)

(***************************************************************************)
(* Specification SpecRefetch: within one run, fetch_with_retries (of       *)
(* either module) is called several times, also again for a URL whose      *)
(* earlier call has ended, and for the two URLs 1 and 3 of the host a.com   *)
(* at the same time.                                                       *)
(***************************************************************************)
\* the index in calls of the latest call for u
LastCall(cs, u) ==
    CHOOSE i \in 1..Len(cs) :
        cs[i].url = u /\ \A j \in (i + 1)..Len(cs) : cs[j].url # u

\* the request a call issues when it enters state t, added to its record
Counted(c, t) ==
    CASE t.pc = "robots" -> [c EXCEPT !.robots = c.robots + 1]
      [] t.pc = "get"    -> [c EXCEPT !.page = c.page + 1]
      [] OTHER           -> c

\* fetch_with_retries(url, session) is called: neither function reads
\* _html_fetch_cache, the call runs as a first call does
Call(u) ==
    /\ pc = "calls"
    /\ Len(calls) < MaxCalls
    /\ u \in DOMAIN task => Terminated(task[u])
    /\ task' = (u :> FBegin(u, domains, robots_cache)) @@ task
    /\ calls' = Append(calls, Counted([url |-> u, robots |-> 0, page |-> 0],
                                       task'[u]))
    /\ html_fetch_cache' = CacheAfter(html_fetch_cache, u, task'[u])
    /\ UNCHANGED <<blVars, pc, urls, batch_i, html_map, error_list, robots_cache,
                   excluded_at_start, net_log, extractVars, ret, funVars, fetcher,
                   page_log, delay_log>>

CallRobotsResponse(u, r) ==
    /\ pc = "calls"
    /\ u \in DOMAIN task
    /\ task[u].pc = "robots"
    /\ robots_cache' = RobotsCacheAfter(robots_cache, u, r)
    /\ task' = [task EXCEPT ![u] = AfterRobots(task[u], r)]
    /\ calls' = [calls EXCEPT ![LastCall(calls, u)] =
                    Counted(calls[LastCall(calls, u)], task'[u])]
    /\ html_fetch_cache' = CacheAfter(html_fetch_cache, u, task'[u])
    /\ UNCHANGED <<blVars, pc, urls, batch_i, html_map, error_list,
                   excluded_at_start, net_log, extractVars, ret, funVars, fetcher,
                   page_log, delay_log>>

CallPageResponse(u, r) ==
    /\ pc = "calls"
    /\ u \in DOMAIN task
    /\ task[u].pc = "get"
    /\ task' = [task EXCEPT ![u] = FAfterPage(task[u], r)]
    /\ html_fetch_cache' = FCacheAfter(html_fetch_cache, u, task[u], r)
    /\ failures' = FailuresAfterN(failures, HostOf(u),
                                  FRecordCalls(task[u], r))
    /\ domains' = DomainsAfterN(domains, failures, HostOf(u),
                                FRecordCalls(task[u], r))
    /\ recorded' = IF FRecordCalls(task[u], r) = 0 THEN recorded
                   ELSE (u :> FRecordCalls(task[u], r)) @@ recorded
    /\ UNCHANGED store
    /\ UNCHANGED <<pc, urls, batch_i, html_map, error_list, robots_cache,
                   excluded_at_start, net_log, extractVars, ret, auxVars>>

CallWake(u) ==
    /\ pc = "calls"
    /\ u \in DOMAIN task
    /\ task[u].pc = "sleep"
    /\ task' = [task EXCEPT ![u] =
                   PAttempt(u, task[u].attempt + 1, task[u].delay * 2,
                            robots_cache)]
    /\ calls' = [calls EXCEPT ![LastCall(calls, u)] =
                    Counted(calls[LastCall(calls, u)], task'[u])]
    /\ html_fetch_cache' = CacheAfter(html_fetch_cache, u, task'[u])
    /\ UNCHANGED <<blVars, pc, urls, batch_i, html_map, error_list, robots_cache,
                   excluded_at_start, net_log, extractVars, ret, funVars, fetcher,
                   page_log, delay_log>>

RefetchInit ==
    /\ store \in InitStores
    /\ domains = LoadDomains(store)
    /\ failures = LoadFailures(store)
    /\ recorded = <<>>
    /\ pc = "calls"
    /\ urls = <<>>
    /\ batch_i = 0
    /\ task = <<>>
    /\ html_map = <<>>
    /\ error_list = <<>>
    /\ html_fetch_cache = <<>>
    /\ robots_cache = <<>>
    /\ excluded_at_start = {}
    /\ net_log = {}
    /\ ExtractInit
    /\ ret = <<>>
    /\ fetcher \in {"pipeline_agent", "scraper_agent"}
    /\ page_log = <<>>
    /\ delay_log = <<>>
    /\ calls = <<>>
    /\ robots_call = None
    /\ allowed = None
    /\ tools = <<>>
    /\ deduped_tools = <<>>
    /\ search = <<>>
    /\ search_i = <<>>
    /\ found = {}

RefetchNext ==
    \/ \E u \in {1, 3} : Call(u)
    \/ \E u \in DOMAIN task, r \in RobotsResponses : CallRobotsResponse(u, r)
    \/ \E u \in DOMAIN task, r \in PageResponses : CallPageResponse(u, r)
    \/ \E u \in DOMAIN task : CallWake(u)

SpecRefetch == RefetchInit /\ [][RefetchNext]_vars

(***************************************************************************)
(* prompt_loader.is_allowed_by_robots.  A path is the sequence of its      *)
(* characters.  A line of robots.txt, stripped, is given by the text       *)
(* before its first colon as written (name), whether it has a colon, and   *)
(* the stripped text after it (value): a sequence of characters for a      *)
(* path, a sequence of words for an agent.                                 *)
(***************************************************************************)
\* the default of the user_agent parameter; no caller passes another
USER_AGENT == "Mozilla/5.0"

Line(name, colon, value) == [name |-> name, colon |-> colon, value |-> value]

RobotsLinesSet ==
    {Line("User-Agent", TRUE, <<"*">>),
     Line("user-agent", TRUE, <<"Googlebot">>),
     Line("User-Agent", TRUE, <<"Mozilla/5.0", "(X11)">>),
     Line("Disallow", TRUE, <<>>),
     Line("Disallow", TRUE, <<"/", "a">>),
     Line("DISALLOW", TRUE, <<"/">>),
     Line("Disallow", FALSE, <<>>),
     Line("Allow", TRUE, <<"/">>),
     Line("# no crawling", FALSE, <<>>)}

\* the answers to the robots.txt request
RobotsAnswers ==
    {[kind |-> "200", content |-> c] :
        c \in UNION {[1..n -> RobotsLinesSet] : n \in 0..MaxRobotsLines}} \cup
    {[kind |-> k, content |-> <<>>] : k \in {"non200", "error"}}

\* urlparse(url): scheme, netloc and path of the URLs of the model
ParsedUrls ==
    {[scheme |-> "https", netloc |-> "a.com", path |-> p] :
        p \in {<<>>, <<"/">>, <<"/", "a">>, <<"/", "a", "b">>, <<"/", "b">>}}
    \cup {[scheme |-> "", netloc |-> "", path |-> <<"/", "a">>],
          [scheme |-> "https", netloc |-> "", path |-> <<"/", "a">>]}

\* str.startswith
StartsWith(s, prefix) ==
    /\ Len(prefix) <= Len(s)
    /\ SubSeq(s, 1, Len(prefix)) = prefix

\* line.lower().startswith("user-agent:")
IsUserAgentLine(line) == line.colon /\ Lower(line.name) = "user-agent"

\* line.lower().startswith("disallow:")
IsDisallowLine(line) == line.colon /\ Lower(line.name) = "disallow"

UaMatches_AnyAgent(ua) == ua # <<>>

\* ua == "*" or (ua is not None and user_agent in ua), ua being <<>> for
\* None and <<value>> for the value of the latest User-agent line
UaMatches(ua) ==
    /\ ua # <<>>
    /\ \/ ua[1] = <<"*">>
       \/ \E i \in 1..Len(ua[1]) : ua[1][i] = USER_AGENT

\* the loop over content.splitlines()
RECURSIVE ParseRobots(_, _, _, _)
ParseRobots(lines, ua, path, ok) ==
    IF lines = <<>> THEN ok
    ELSE IF IsUserAgentLine(Head(lines))
         THEN ParseRobots(Tail(lines), <<Head(lines).value>>, path, ok)
    ELSE IF IsDisallowLine(Head(lines)) /\ UaMatches(ua)
         THEN ParseRobots(Tail(lines), ua, path,
                          IF Head(lines).value # <<>>
                             /\ StartsWith(path, Head(lines).value)
                          THEN FALSE ELSE ok)
    ELSE ParseRobots(Tail(lines), ua, path, ok)

\* is_allowed_by_robots(url) when the robots.txt request, if one is made,
\* is answered by answer
is_allowed_by_robots(url, answer) ==
    IF url.scheme = "" \/ url.netloc = "" THEN TRUE
    ELSE IF answer.kind # "200" THEN TRUE
    ELSE ParseRobots(answer.content, <<>>, url.path, TRUE)

\* every variable of the pipeline as at the start of a run, but pc
ProgramIdle ==
    /\ store = EmptyStore
    /\ domains = LoadDomains(store)
    /\ failures = LoadFailures(store)
    /\ recorded = <<>>
    /\ urls = <<>>
    /\ batch_i = 0
    /\ task = <<>>
    /\ html_map = <<>>
    /\ error_list = <<>>
    /\ html_fetch_cache = <<>>
    /\ robots_cache = <<>>
    /\ excluded_at_start = {}
    /\ net_log = {}
    /\ ExtractInit
    /\ ret = <<>>

(***************************************************************************)
(* Specification SpecRobots: one call of is_allowed_by_robots.             *)
(***************************************************************************)
RobotsInit ==
    /\ ProgramIdle
    /\ pc = "robots_called"
    /\ fetcher = None
    /\ page_log = <<>>
    /\ delay_log = <<>>
    /\ calls = <<>>
    /\ robots_call \in [url : ParsedUrls, answer : RobotsAnswers]
    /\ allowed = None
    /\ tools = <<>>
    /\ deduped_tools = <<>>
    /\ search = <<>>
    /\ search_i = <<>>
    /\ found = {}

RobotsReturn ==
    /\ pc = "robots_called"
    /\ allowed' = is_allowed_by_robots(robots_call.url, robots_call.answer)
    /\ pc' = "robots_returned"
    /\ UNCHANGED <<blVars, fetchVars, extractVars, ret, retryVars, robots_call,
                   tools, deduped_tools, search, search_i, found>>

SpecRobots == RobotsInit /\ [][RobotsReturn]_vars

(***************************************************************************)
(* Specification SpecPostprocess: run_pipeline from the return of          *)
(* extract_all_tool_info to its own return, for every list of up to        *)
(* MaxTools records over the titles, websites, classifications and publish *)
(* dates below.                                                            *)
(***************************************************************************)
\* the publish dates of the records; seven_days_ago is noon of day 93
PublishDates ==
    {NoDate,
     DateStr("empty", 0, 0, ""),
     DateStr("date", 50, 0, ""),
     DateStr("date", 93, 0, ""),
     DateStr("date", 94, 0, ""),
     DateStr("datetime", 93, 43200, "Z"),
     DateStr("datetime", 93, 43199, "Z"),
     DateStr("datetime", 93, 46799, "+01:00"),
     DateStr("datetime", 50, 0, ""),
     DateStr("text_T", 0, 0, ""),
     DateStr("text", 0, 0, "")}

\* the records of the lists, but for their source
ToolFields ==
    {ToolInfo(t, w, "ai_tool", NoDate, "") :
        t \in {"Tool", "tool", "other"}, w \in {"w.ai", "x.ai"}}
    \cup {ToolInfo("Tool", "w.ai", "not_ai_tool", NoDate, "")}
    \cup {ToolInfo("dated", "w.ai", "ai_tool", d, "") : d \in PublishDates}

\* n URLs were fetched with a body each and the extraction gave one record
\* per body
PostInit ==
    /\ store = EmptyStore
    /\ domains = LoadDomains(store)
    /\ failures = LoadFailures(store)
    /\ recorded = <<>>
    /\ pc = "extract"
    /\ urls \in UrlLists(MaxTools) \ {<<>>}
    /\ batch_i = ((Len(urls) + BATCH_SIZE - 1) \div BATCH_SIZE) * BATCH_SIZE
    /\ task = [u \in 1..Len(urls) |-> Returned("<html>")]
    /\ html_map = [u \in 1..Len(urls) |-> "<html>"]
    /\ error_list = <<>>
    /\ html_fetch_cache = [u \in 1..Len(urls) |-> "<html>"]
    /\ robots_cache = [h \in {HostOf(u) : u \in 1..Len(urls)} |-> "allow"]
    /\ excluded_at_start = {}
    /\ net_log = {}
    /\ \E fs \in [DOMAIN urls -> ToolFields] :
          results = [k \in DOMAIN urls |->
                        [fs[k] EXCEPT !.source = UrlStr(urls[k])]]
    /\ ex = [pc |-> "ready", attempt |-> 0]
    /\ llm_semaphore = LLM_CONCURRENCY_LIMIT
    /\ llm_inflight = 0
    /\ llm_log = <<>>
    /\ llm_delays = <<>>
    /\ ret = <<>>
    /\ AuxIdle

SpecPostprocess == PostInit /\ [][Finish]_vars

(***************************************************************************)
(* Specification SpecThrottle: the extraction loop of run_pipeline over    *)
(* fetched bodies, with extract_tool_info_with_llm_throttled_with_retry    *)
(* taken for any behaviour of the call it awaits: besides what             *)
(* extract_tool_info_with_llm returns and raises, the awaited call can     *)
(* raise the RateLimitError that the wrapper's except clause names.        *)
(***************************************************************************)
\* n URLs were fetched with a body each; no extraction has been made
ThrottleInit ==
    /\ store = EmptyStore
    /\ domains = LoadDomains(store)
    /\ failures = LoadFailures(store)
    /\ recorded = <<>>
    /\ pc = "extract"
    /\ urls \in UrlLists(MaxUrls) \ {<<>>}
    /\ batch_i = ((Len(urls) + BATCH_SIZE - 1) \div BATCH_SIZE) * BATCH_SIZE
    /\ task = [u \in 1..Len(urls) |-> Returned("<html>")]
    /\ html_map = [u \in 1..Len(urls) |-> "<html>"]
    /\ error_list = <<>>
    /\ html_fetch_cache = [u \in 1..Len(urls) |-> "<html>"]
    /\ robots_cache = [h \in {HostOf(u) : u \in 1..Len(urls)} |-> "allow"]
    /\ excluded_at_start = {}
    /\ net_log = {}
    /\ ExtractInit
    /\ ret = <<>>
    /\ AuxIdle

\* the awaited extract_tool_info_with_llm_throttled raises RateLimitError:
\* the slot is released on the way out of "async with", then the wrapper
\* sleeps before its next attempt or, on the last attempt, raises again
RateLimited ==
    /\ pc = "extract"
    /\ ex.pc = "call"
    /\ llm_semaphore' = Released(llm_semaphore)
    /\ llm_inflight' = llm_inflight - 1
    /\ IF Retried("RateLimitError", ex.attempt)
       THEN /\ ex' = [pc |-> "sleep", attempt |-> ex.attempt]
            /\ llm_delays' = Append(llm_delays, LLM_DELAY)
            /\ UNCHANGED pc
       ELSE /\ ex' = [pc |-> "raised", attempt |-> ex.attempt]
            /\ pc' = "raised"
            /\ UNCHANGED llm_delays
    /\ UNCHANGED <<blVars, fetchVars, results, llm_log, ret, auxVars>>

ThrottleNext ==
    \/ LLMCall
    \/ \E r \in LLMResponses : LLMResponse(r)
    \/ RateLimited

SpecThrottle == ThrottleInit /\ [][ThrottleNext]_vars

(***************************************************************************)
(* agents/search_agent.py.  A URL text is given by its parts as written:   *)
(* scheme, netloc, path, params (after ";"), query (after "?"), fragment   *)
(* (after "#"); valid is false for a text urlparse raises ValueError on.   *)
(* A netloc, like an entry of AGGREGATOR_DOMAINS, is the sequence of its   *)
(* pieces, each "." being a piece of its own, so that a suffix of pieces   *)
(* is a suffix of characters.                                              *)
(***************************************************************************)
Url(scheme, netloc, path, params, query, fragment) ==
    [valid |-> TRUE, scheme |-> scheme, netloc |-> netloc, path |-> path,
     params |-> params, query |-> query, fragment |-> fragment]

InvalidUrl ==
    [valid |-> FALSE, scheme |-> "http", netloc |-> <<"[", "tool", ".", "ai">>,
     path |-> "/a", params |-> "", query |-> "", fragment |-> ""]

\* entries of AGGREGATOR_DOMAINS: 'youtube.com', 'edu', 'goFundme.com'
AGGREGATOR_DOMAINS ==
    {<<"youtube", ".", "com">>, <<"edu">>, <<"goFundme", ".", "com">>}

\* str.lower() of a netloc
LowerSeq(s) == [i \in DOMAIN s |-> Lower(s[i])]

\* str.endswith
EndsWith(s, suffix) ==
    /\ Len(suffix) <= Len(s)
    /\ SubSeq(s, Len(s) - Len(suffix) + 1, Len(s)) = suffix

\* urlparse(url): the scheme is lower-cased, the other parts are as written
urlparse(url) == [url EXCEPT !.scheme = Lower(url.scheme)]

normalize_url_KeepQuery(url) ==
    IF url.valid
    THEN Url(urlparse(url).scheme, urlparse(url).netloc, urlparse(url).path,
             "", urlparse(url).query, "")
    ELSE url

\* normalize_url(url): urlunparse of the parsed parts without params, query
\* and fragment; on an exception of urlparse the URL is returned as is
normalize_url(url) ==
    IF url.valid
    THEN Url(urlparse(url).scheme, urlparse(url).netloc, urlparse(url).path,
             "", "", "")
    ELSE url

\* the body of the loop over AGGREGATOR_DOMAINS: the entry is used as written
AggregatorMatch(domain, agg) ==
    IF agg[1] = "."
    THEN EndsWith(domain, agg)
    ELSE domain = agg \/ EndsWith(domain, <<".">> \o agg)

\* is_aggregator(url); on an exception of urlparse the URL is filtered out
is_aggregator(url) ==
    IF url.valid
    THEN \E agg \in AGGREGATOR_DOMAINS :
            AggregatorMatch(LowerSeq(urlparse(url).netloc), agg)
    ELSE TRUE

\* the lists of r["link"] of the organic results the backends answer with
ResultLists ==
    {<<>>,
     <<Url("https", <<"tool", ".", "ai">>, "/a", "", "b=1", "frag"),
       Url("https", <<"youtube", ".", "com">>, "/x", "", "", ""),
       Url("https", <<"foo", ".", "edu">>, "/", "", "", ""),
       Url("https", <<"gofundme", ".", "com">>, "/c", "", "", "")>>,
     <<Url("https", <<"tool", ".", "ai">>, "/a", "", "", ""),
       Url("https", <<"www", ".", "youtube", ".", "com">>, "/", "", "", ""),
       Url("https", <<"not", "youtube", ".", "com">>, "/", "", "", ""),
       Url("https", <<"edu", "cation", ".", "com">>, "/", "", "", "")>>,
     <<Url("HTTPS", <<"tool", ".", "ai">>, "/a", "p", "", ""),
       Url("https", <<"YouTube", ".", "com">>, "/", "", "v=1", ""),
       Url("http", <<"bar", ".", "foo", ".", "edu">>, "/", "", "", ""),
       InvalidUrl>>}

\* how a backend's request for one query ends: organic results, a status
\* other than 200, an exception
SearchOutcomes ==
    {[kind |-> "links", links |-> l] : l \in ResultLists} \cup
    {[kind |-> k, links |-> <<>>] : k \in {"status", "exception"}}

\* what search_web_for_ai_tools_serper / _serpapi returns: the links, and
\* [] after "resp.status != 200" and from "except Exception"
SearchReturned(outcome) ==
    IF outcome.kind = "links" THEN outcome.links ELSE <<>>

Backends == {"serper", "serpapi"}

\* queries = get_search_queries(), by position
Queries == 1..MaxQueries

\* batch = queries[i:i+BATCH_SIZE]
QueryBatch(i) == {q \in Queries : i < q /\ q <= i + BATCH_SIZE}

\* the inner loop of the merge: the normalized URLs of the links that
\* is_aggregator does not filter out
Kept(links) ==
    {normalize_url(links[k]) : k \in {i \in DOMAIN links : ~is_aggregator(links[i])}}

MergedUrls_WholeBackendLost(res) ==
    UNION {Kept(SearchReturned(res[b][q])) :
              b \in {c \in Backends : \A p \in Queries : res[c][p].kind = "links"},
              q \in Queries}

\* the merge loop of run_search over serper_results and serpapi_results
MergedUrls(res) ==
    UNION {Kept(SearchReturned(res[b][q])) : b \in Backends, q \in Queries}

(***************************************************************************)
(* Specification SpecSearch: one call of run_search.                       *)
(***************************************************************************)
SearchInit ==
    /\ ProgramIdle
    /\ pc = "run_search"
    /\ fetcher = None
    /\ page_log = <<>>
    /\ delay_log = <<>>
    /\ calls = <<>>
    /\ robots_call = None
    /\ allowed = None
    /\ tools = <<>>
    /\ deduped_tools = <<>>
    /\ search = [b \in Backends |-> [q \in Queries |->
                                     [kind |-> "pending", links |-> <<>>]]]
    /\ search_i = [b \in Backends |-> 0]
    /\ found = {}

\* a request of the current batch of backend b ends
SearchResponse(b, q, r) ==
    /\ pc = "run_search"
    /\ q \in QueryBatch(search_i[b])
    /\ search[b][q].kind = "pending"
    /\ search' = [search EXCEPT ![b][q] = r]
    /\ UNCHANGED <<blVars, pc, fetchVars, extractVars, ret, retryVars,
                   robots_call, allowed, tools, deduped_tools, search_i, found>>

\* gather returns for the batch: results.extend(batch_results), then the
\* next batch (after asyncio.sleep(1)) or the return of the results
SearchBatchDone(b) ==
    /\ pc = "run_search"
    /\ QueryBatch(search_i[b]) # {}
    /\ \A q \in QueryBatch(search_i[b]) : search[b][q].kind # "pending"
    /\ search_i' = [search_i EXCEPT ![b] = search_i[b] + BATCH_SIZE]
    /\ UNCHANGED <<blVars, pc, fetchVars, extractVars, ret, retryVars,
                   robots_call, allowed, tools, deduped_tools, search, found>>

\* both run_serper and run_serpapi returned: merge, return list(urls)
SearchReturn ==
    /\ pc = "run_search"
    /\ \A b \in Backends : QueryBatch(search_i[b]) = {}
    /\ found' = MergedUrls(search)
    /\ pc' = "searched"
    /\ UNCHANGED <<blVars, fetchVars, extractVars, ret, retryVars,
                   robots_call, allowed, tools, deduped_tools, search, search_i>>

SearchNext ==
    \/ \E b \in Backends, q \in Queries, r \in SearchOutcomes :
          SearchResponse(b, q, r)
    \/ \E b \in Backends : SearchBatchDone(b)
    \/ SearchReturn

SpecSearch == SearchInit /\ [][SearchNext]_vars

(***************************************************************************)
(* Properties                                                              *)
(***************************************************************************)
Range(f) == {f[x] : x \in DOMAIN f}

Occurrences(seq, x) == Cardinality({k \in 1..Len(seq) : seq[k] = x})

FetchAllReturned == pc = "extract"

\* C1 (state part): once fetch_all_html has returned, html_map has exactly
\* one entry per input URL, and every URL of the error list occurs there
\* once and has the empty body.
C1_MapComplete ==
    FetchAllReturned =>
        /\ DOMAIN html_map = Range(urls)
        /\ \A u \in Range(error_list) :
              Occurrences(error_list, u) = 1 /\ html_map[u] = ""

\* C1 (step part): when gather returns, a fetch that raised becomes an
\* empty-body entry plus one error record naming its URL, and a fetch that
\* returned becomes an entry with its text and no error record.
C1_CollectStep ==
    (batch_i' # batch_i) =>
        \A u \in Batch(batch_i) :
            /\ u \in DOMAIN html_map'
            /\ IF IsException(task[u])
               THEN html_map'[u] = "" /\ Occurrences(error_list', u) = 1
               ELSE html_map'[u] = task[u].result
                    /\ Occurrences(error_list', u) = 0

\* C1: for every list of distinct URLs fetch_all_html returns one entry per
\* URL whatever each fetch did; a raising fetch is converted to an empty
\* body plus one error record, and fetch_all_html itself never raises.
C1_OneOutcomePerUrl ==
    /\ [](C1_MapComplete /\ pc # "raised")
    /\ [][C1_CollectStep]_vars

\* C1 witness: fetch_all_html returned over more than one batch, with a
\* fetch that raised and a fetch that gave a body.
C1_Witness ==
    /\ FetchAllReturned
    /\ Len(urls) > BATCH_SIZE
    /\ error_list # <<>>
    /\ \E u \in DOMAIN html_map : html_map[u] # ""

\* C2: no fetch failure and no inference failure makes run_pipeline raise.
C2_RunNeverRaises == pc # "raised"

\* C3: fetch_all_html issues no robots.txt or page request for a URL whose
\* host is in the exclusion set when its fetch starts, and such a URL gets
\* the empty outcome.
C3_PipelineSkipsExcluded ==
    /\ net_log = {}
    /\ \A u \in excluded_at_start :
          u \in DOMAIN html_map => html_map[u] = ""

\* C4: every URL of the error list has a failure recorded against its
\* domain, and the counters saved at the end of the run include it.
C4_FailureRecordedPerError ==
    \A u \in Range(error_list) :
        /\ u \in DOMAIN recorded
        /\ pc = "done" =>
              store.failures[Lower(HostOf(u))] > 0

\* C5: scraper_agent.fetch_with_retries called for a URL whose host is in
\* the exclusion set returns the empty outcome at once: no robots.txt or
\* page request is issued for it and it records no failure.
C5_ExcludedReturnsEmpty ==
    /\ net_log = {}
    /\ \A u \in excluded_at_start :
          /\ task[u] = Returned("")
          /\ u \notin DOMAIN recorded
          /\ html_fetch_cache[u] = ""

\* C5 witness: a URL written with an upper-case host of an excluded domain
\* has returned empty while the fetch of another URL is using the network.
C5_Witness ==
    \E u \in excluded_at_start, v \in DOMAIN task :
        /\ HostOf(u) # Lower(HostOf(u))
        /\ task[u] = Returned("")
        /\ task[v].pc = "get"

C6_Threshold ==
    \A d \in Domains : d \in domains <=> failures[d] >= FAILURE_THRESHOLD

C6_Monotone ==
    /\ \A d \in Domains : failures'[d] >= failures[d]
    /\ domains \subseteq domains'

\* C6: from an empty blacklist, under record_failure calls a counter never
\* decreases, a domain is in the exclusion set exactly when its counter is
\* at least 3, and a domain never leaves the exclusion set.
C6_BlacklistMonotone == []C6_Threshold /\ [][C6_Monotone]_vars

\* C6 witness: one domain has reached the threshold and is excluded while
\* the other is one failure short of it and is not.
C6_Witness ==
    \E d, e \in Domains :
        /\ failures[d] >= FAILURE_THRESHOLD /\ d \in domains
        /\ failures[e] = FAILURE_THRESHOLD - 1 /\ e \notin domains

\* C7: the extraction yields one record per non-empty body, also when the
\* inference call fails or its answer does not parse: when the run has left
\* the extraction loop there are as many records as bodies.
C7_RecordPerBody ==
    pc \in {"done", "raised"} => Len(results) = Len(urls_and_htmls)

\* C8: a rate-limit signal on attempt 1 or 2 is answered by a 10-second
\* delay and another call, so k signals before a success cost k delays and
\* k + 1 calls and the wrapper does not raise.
C8_RateLimitRetried ==
    \A i \in 1..Len(llm_log) :
        (llm_log[i].kind = "RateLimitError" /\ i < LLM_RETRIES) =>
            /\ Len(llm_delays) >= i
            /\ llm_delays[i] = LLM_DELAY
            /\ ex.pc # "raised"

\* C9: at most 2 inference calls are in flight at any moment, whatever the
\* number of fetched pages.
C9_InferenceBounded ==
    /\ llm_inflight <= LLM_CONCURRENCY_LIMIT
    /\ llm_semaphore >= 0

\* C9 witness: an inference call is in flight in a run that fetched more
\* pages than the limit.
C9_Witness ==
    /\ llm_inflight > 0
    /\ Len(urls_and_htmls) > LLM_CONCURRENCY_LIMIT

FetchesInFlight == {u \in DOMAIN task : ~Terminated(task[u])}

\* C10: the URLs are fetched in consecutive batches of 4: every fetch of an
\* earlier batch has terminated, no fetch of a later batch has started, and
\* at most 4 page fetches are in flight.
C10_BatchesDrained ==
    /\ \A k \in 1..Len(urls) :
          /\ k <= batch_i => urls[k] \in DOMAIN task /\ Terminated(task[urls[k]])
          /\ k > batch_i + BATCH_SIZE => urls[k] \notin DOMAIN task
    /\ Cardinality(FetchesInFlight) <= BATCH_SIZE

\* C10 witness: the second batch is being fetched after a first batch of 4.
C10_Witness ==
    /\ batch_i = BATCH_SIZE
    /\ FetchesInFlight # {}
    /\ Cardinality(DOMAIN html_map) = BATCH_SIZE

\* a page request ended in HTTP 503 or in a transport error
Transient(r) ==
    \/ r.kind = "http" /\ r.status = 503
    \/ r.kind = "ClientError"

Ok200(r) == r.kind = "http" /\ r.status = 200

\* the backoff delays 2s, 4s, ... of k retries
Backoff(k) == [i \in 1..k |-> 2 ^ i]

\* C11 (state part): when the first k page responses of the fetch (k < 3)
\* were HTTP 503 or a transport error and response k + 1 is a 200, the fetch
\* has returned the body of that response, has slept exactly k delays of
\* 2s, 4s, ..., and no failure is recorded against the domain.
C11_BodyAfterBackoff ==
    \A u \in DOMAIN task :
        LET n == Len(page_log)
        IN  (/\ n >= 1
             /\ n - 1 < FETCH_RETRIES
             /\ \A i \in 1..(n - 1) : Transient(page_log[i])
             /\ Ok200(page_log[n]))
            => /\ task[u] = Returned(page_log[n].text)
               /\ delay_log = Backoff(n - 1)
               /\ u \notin DOMAIN recorded
               /\ failures = LoadFailures(store)

\* C11 (step part): HTTP 503 or a transport error on the first or second
\* page request puts the fetch to sleep for 2s, then 4s, with no failure
\* recorded.
C11_RetryStep ==
    (/\ Len(page_log') = Len(page_log) + 1
     /\ Len(page_log') < FETCH_RETRIES
     /\ Transient(page_log'[Len(page_log')]))
    => \A u \in DOMAIN task :
          /\ task'[u].pc = "sleep"
          /\ task'[u].delay = 2 ^ Len(page_log')
          /\ recorded' = recorded
          /\ failures' = failures

\* C11: if the first k page requests of a fetch (k < 3) end in HTTP 503 or
\* a transport error and request k + 1 returns HTTP 200, the fetch returns
\* the body after exactly k backoff delays of 2s, 4s, ... and records no
\* domain failure.
C11_TransientRetried == []C11_BodyAfterBackoff /\ [][C11_RetryStep]_vars

\* C11 witness: a fetch returned the body of its third page request after
\* an HTTP 503 and a transport error, having slept 2s and 4s.
C11_Witness ==
    /\ pc = "one"
    /\ Len(page_log) = FETCH_RETRIES
    /\ \E i, j \in 1..2 : page_log[i].kind = "http" /\ page_log[j].kind = "ClientError"
    /\ \A i \in 1..2 : Transient(page_log[i])
    /\ Ok200(page_log[3])
    /\ task[urls[1]] = Returned("<html>")
    /\ delay_log = <<2, 4>>

\* call j is a second (or later) call for its URL
Repeated(j) == \E i \in 1..(j - 1) : calls[i].url = calls[j].url

\* C12: within one run, a fetch requested again for a URL whose earlier
\* fetch reached a terminal outcome is answered at once from the per-run
\* response cache: it issues no robots.txt request and no page request.
C12_RepeatServedFromCache ==
    \A j \in 1..Len(calls) :
        Repeated(j) =>
            /\ calls[j].robots = 0
            /\ calls[j].page = 0
            /\ Terminated(task[calls[j].url])

RECURSIVE RobotsRequests(_, _)
RobotsRequests(cs, h) ==
    IF cs = <<>> THEN 0
    ELSE (IF HostOf(Head(cs).url) = h THEN Head(cs).robots ELSE 0)
         + RobotsRequests(Tail(cs), h)

\* C13: within one run robots.txt is requested at most once per host,
\* whatever the number of URLs, attempts and concurrent fetches of the host
\* and whatever the robots.txt response was.
C13_RobotsOncePerHost ==
    \A h \in Hosts : RobotsRequests(calls, h) <= 1

\* the request of robots.txt failed, or the URL has no scheme or no host
RobotsUnavailable ==
    \/ robots_call.url.scheme = ""
    \/ robots_call.url.netloc = ""
    \/ robots_call.answer.kind # "200"

\* no line of the content is a User-agent or a Disallow directive
RobotsUnparsable ==
    \A i \in DOMAIN robots_call.answer.content :
        /\ ~IsUserAgentLine(robots_call.answer.content[i])
        /\ ~IsDisallowLine(robots_call.answer.content[i])

\* line j is the User-agent line that opens the group of line i
GroupOf(content, i, j) ==
    /\ j < i
    /\ IsUserAgentLine(content[j])
    /\ \A k \in (j + 1)..(i - 1) : ~IsUserAgentLine(content[k])

\* line i is a Disallow line with a non-empty path that is a prefix of the
\* request path, in a group of the wildcard or of an agent text that
\* contains the token
Disallowing(content, i) ==
    /\ IsDisallowLine(content[i])
    /\ content[i].value # <<>>
    /\ StartsWith(robots_call.url.path, content[i].value)
    /\ \E j \in DOMAIN content :
          /\ GroupOf(content, i, j)
          /\ \/ content[j].value = <<"*">>
             \/ USER_AGENT \in Range(content[j].value)

\* C14: is_allowed_by_robots returns true whenever the URL has no scheme
\* or host, the robots.txt request errors or answers non-200, or the
\* content holds no directive; it returns false only when a Disallow line
\* with a non-empty prefix of the request path stands in a User-agent
\* group of the wildcard or of a text containing the agent token.
C14_RobotsFailsOpen ==
    pc = "robots_returned" =>
        /\ (RobotsUnavailable \/ RobotsUnparsable) => allowed = TRUE
        /\ allowed = FALSE =>
              \E i \in DOMAIN robots_call.answer.content :
                  Disallowing(robots_call.answer.content, i)

\* C14 witness: false was returned for a Disallow line in the group of an
\* agent text of several words, after a group of another agent.
C14_Witness ==
    /\ pc = "robots_returned"
    /\ allowed = FALSE
    /\ \E i, j \in DOMAIN robots_call.answer.content :
          /\ Disallowing(robots_call.answer.content, i)
          /\ GroupOf(robots_call.answer.content, i, j)
          /\ Len(robots_call.answer.content[j].value) > 1
          /\ j > 1

SamePair(a, b) ==
    /\ Lower(a.website) = Lower(b.website)
    /\ Lower(a.title) = Lower(b.title)

\* the positions of tools whose pair no earlier record has
FirstSeen == {i \in DOMAIN tools : \A j \in 1..(i - 1) : ~SamePair(tools[j], tools[i])}

\* C15: the deduplicated list has no two records with the same lower-cased
\* (website, title) pair, and it is the accepted records at the positions
\* where a pair is first seen, in their original order.
C15_DedupFirstSeen ==
    pc = "done" =>
        /\ \A i, j \in DOMAIN deduped_tools :
              SamePair(deduped_tools[i], deduped_tools[j]) => i = j
        /\ Len(deduped_tools) = Cardinality(FirstSeen)
        /\ \E f \in [DOMAIN deduped_tools -> FirstSeen] :
              /\ \A i, j \in DOMAIN deduped_tools : i < j => f[i] < f[j]
              /\ \A i \in DOMAIN deduped_tools : deduped_tools[i] = tools[f[i]]

\* C15 witness: three accepted records, the first two with titles that
\* differ only in case on one website, gave two records.
C15_Witness ==
    /\ pc = "done"
    /\ Len(tools) = 3
    /\ tools[1].title # tools[2].title
    /\ SamePair(tools[1], tools[2])
    /\ ~SamePair(tools[1], tools[3])
    /\ deduped_tools = <<tools[1], tools[3]>>

\* the instant the claim reads in a date or an ISO date-time, a date-time
\* without time zone read as UTC
WrittenInstant(d) == Instant(d.day, d.sec) - UtcOffset(d.tz)

\* the publish date parses and is more than 7 days before now
Outdated(t) ==
    /\ t.publish_date.form \in {"date", "datetime"}
    /\ Now - WrittenInstant(t.publish_date) > RECENCY_DAYS * SecondsPerDay

NotOutdated(t) == ~Outdated(t)

\* C16: the recency filter drops a record exactly when its publish date
\* parses (a YYYY-MM-DD date or an ISO date-time, with or without time
\* zone) and is more than 7 days before now; a record with no date or an
\* unparseable one is kept.
C16_DroppedIffOutdated ==
    pc = "done" => ret = SelectSeq(deduped_tools, NotOutdated)

\* C17 (extraction part): the record built from a JSON answer without a
\* classification field is classified not_ai_tool.
C17_MissingIsRejected ==
    (pc = "extract" /\ ex.pc = "ready" /\ llm_log # <<>>) =>
        LET r == llm_log[Len(llm_log)]
        IN  (r.kind = "json" /\ r.data.ai_tool_annotation = None) =>
                results[Len(results)].ai_tool_annotation = "not_ai_tool"

\* C17: every record run_pipeline returns is classified ai_tool; a record
\* built from an answer without a classification field is classified
\* not_ai_tool and is not returned.
C17_OnlyAccepted ==
    /\ C17_MissingIsRejected
    /\ pc = "done" =>
          /\ \A i \in DOMAIN ret : ret[i].ai_tool_annotation = "ai_tool"
          /\ \A i \in DOMAIN results :
                results[i].ai_tool_annotation = "not_ai_tool" =>
                    results[i] \notin Range(ret)

\* C17 witness: a run returned a record although the answer for its last
\* page had no classification field.
C17_Witness ==
    /\ pc = "done"
    /\ ret # <<>>
    /\ llm_log # <<>>
    /\ llm_log[Len(llm_log)].kind = "json"
    /\ llm_log[Len(llm_log)].data.ai_tool_annotation = None
    /\ results[Len(results)].ai_tool_annotation = "not_ai_tool"

\* the links the backends have returned so far
ReturnedLinks ==
    UNION {Range(search[b][q].links) : b \in Backends, q \in Queries}

\* two URL texts that differ at most in query string and fragment
SameButQueryFragment(a, b) ==
    /\ a.valid /\ b.valid
    /\ a.scheme = b.scheme
    /\ a.netloc = b.netloc
    /\ a.path = b.path
    /\ a.params = b.params

SameSchemeHostPath(a, b) ==
    /\ urlparse(a).scheme = urlparse(b).scheme
    /\ urlparse(a).netloc = urlparse(b).netloc
    /\ urlparse(a).path = urlparse(b).path

\* C18: normalize_url gives one value for two URLs that differ only in
\* query string or fragment, and the URLs run_search returns never hold two
\* with the same scheme, host and path.
C18_NormalizedUnique ==
    /\ \A a, b \in ReturnedLinks :
          SameButQueryFragment(a, b) => normalize_url(a) = normalize_url(b)
    /\ pc = "searched" =>
          \A a, b \in found : SameSchemeHostPath(a, b) => a = b

\* C18 witness: run_search returned one URL for two links that differ in
\* query string and fragment.
C18_Witness ==
    /\ pc = "searched"
    /\ \E a, b \in ReturnedLinks :
          /\ a # b
          /\ a.query # b.query
          /\ a.fragment # b.fragment
          /\ SameButQueryFragment(a, b)
          /\ normalize_url(a) \in found
          /\ Cardinality({u \in found : u.netloc = a.netloc}) = 1

\* the host matches the filter entry as the claim reads it: an entry that
\* begins with "." matches a host that ends in it, another entry the host
\* itself and its subdomains, letters compared without case
ClaimedMatch(host, entry) ==
    IF entry[1] = "."
    THEN EndsWith(LowerSeq(host), LowerSeq(entry))
    ELSE \/ LowerSeq(host) = LowerSeq(entry)
         \/ EndsWith(LowerSeq(host), <<".">> \o LowerSeq(entry))

ClaimedAggregator(url) ==
    \E entry \in AGGREGATOR_DOMAINS : ClaimedMatch(url.netloc, entry)

\* C19: for an entry that begins with "." the filter excludes the hosts
\* that end in it and no host that only contains its text; for the entries
\* of AGGREGATOR_DOMAINS, is_aggregator excludes a URL exactly when its host
\* is an entry or a subdomain of one, compared case-insensitively.
C19_SuffixAware ==
    \A url \in ReturnedLinks :
        url.valid =>
            /\ AggregatorMatch(LowerSeq(urlparse(url).netloc), <<".", "edu">>)
                  <=> ClaimedMatch(url.netloc, <<".", "edu">>)
            /\ is_aggregator(url) <=> ClaimedAggregator(url)

\* C20: when run_search has returned, whatever calls failed, its result
\* holds the normalized form of every non-aggregator URL that a call which
\* did not fail returned, and nothing else.
C20_FailureIsolated ==
    pc = "searched" =>
        /\ \A b \in Backends, q \in Queries :
              \A url \in Range(search[b][q].links) :
                  (url.valid /\ ~ClaimedAggregator(url)) =>
                      normalize_url(url) \in found
        /\ found \subseteq {normalize_url(url) : url \in ReturnedLinks}

\* C20 witness: run_search returned the URL of a backend's second query
\* although that backend's first query and a query of the other backend
\* failed, one with an error status and one with an exception.
C20_Witness ==
    /\ pc = "searched"
    /\ \E b, c \in Backends :
          /\ b # c
          /\ search[b][1].kind = "exception"
          /\ search[b][2].kind = "links"
          /\ search[c][1].kind = "status"
          /\ \E url \in Range(search[b][2].links) :
                url.valid /\ ~ClaimedAggregator(url) /\ normalize_url(url) \in found

\* the store file is missing, unreadable or corrupt
StoreUnusable ==
    store.form \in {"missing", "unreadable", "partial", "not_object",
                    "bad_blacklist"}

\* C21 (step part): the construction of a PersistentBlacklist ends with the
\* object constructed whatever the store file holds, and over a missing,
\* unreadable or corrupt file with the empty exclusion set and counter map.
C21_ConstructStep ==
    (pc = "stopped" /\ pc' # "stopped") =>
        /\ pc' = "ready"
        /\ StoreUnusable => domains' = {} /\ failures' = NoFailures

Observed(s) == <<LoadDomains(s), LoadFailures(s)>>

\* C22: save() is atomic with respect to the store: at every step of save()
\* a load() of the file observes either the state saved before or the state
\* being saved, never an empty or partial one.
C22_SaveStep ==
    (pc' = "saving" \/ (pc = "saving" /\ pc' = "ready")) =>
        Observed(store') \in {Observed(store), <<domains, failures>>}

C22_SaveAtomic == [][C22_SaveStep]_vars

\* C23 (step part): what save() has written loads as exactly the exclusion
\* set and the counter map that were saved, and the PersistentBlacklist a
\* later process constructs over a dump would save that same dump.
C23_RoundTripStep ==
    /\ (pc = "saving" /\ pc' = "ready") =>
          Observed(store') = <<domains, failures>>
    /\ (pc = "stopped" /\ pc' = "ready" /\ store.form = "object") =>
          SavedStore(domains', failures') = store

\* C23 (state part): with the counters carried over from run to run, a
\* domain is in the exclusion set exactly when its counter is at least 3.
C23_CountersCarried ==
    pc \in {"ready", "saving"} =>
        \A d \in Domains : d \in domains <=> failures[d] >= FAILURE_THRESHOLD

\* C23: a load() that follows a save() restores exactly the exclusion set
\* and the counter map that were saved, so failures recorded in one run
\* count toward the threshold in the next.
C23_PersistsAcrossRuns == []C23_CountersCarried /\ [][C23_RoundTripStep]_vars

\* C23 witness: a domain whose saved counter is one short of the threshold
\* has been excluded by the first failure of a process that loaded it.
C23_Witness ==
    /\ pc = "ready"
    /\ store.form = "object"
    /\ \E d \in Domains :
          /\ store.failures[d] = FAILURE_THRESHOLD - 1
          /\ failures[d] = FAILURE_THRESHOLD
          /\ d \in domains
          /\ d \notin LoadDomains(store)
    /\ \E e \in Domains : e \in LoadDomains(store) /\ e \in domains

\* every URL of the run was fetched and every fetch raised
EveryFetchFailed ==
    /\ pc \in {"extract", "done", "raised"}
    /\ urls # <<>>
    /\ \A k \in 1..Len(urls) : urls[k] \in Range(error_list)

\* C24 (state part): after a fetch phase in which every fetch failed there
\* is nothing to extract and no inference call is made, and the finished
\* run has itemized one error per URL, counted them all as failed, saved
\* the blacklist and returned the empty list.
C24_NothingExtracted ==
    EveryFetchFailed =>
        /\ pc # "raised"
        /\ urls_and_htmls = <<>>
        /\ results = <<>> /\ llm_log = <<>> /\ llm_inflight = 0
        /\ pc = "done" =>
              /\ ret = <<>>
              /\ store = SavedStore(domains, failures)
              /\ \A k \in 1..Len(urls) : Occurrences(error_list, urls[k]) = 1
              /\ SummaryReport.failed = Len(urls)
              /\ SummaryReport.successful = 0

\* C24: a run in which every fetch fails still completes: run_pipeline
\* performs no extraction, prints the summary with one itemized error per
\* failed URL, saves the blacklist and returns an empty record list.
C24_AllFailedCompletes ==
    /\ []C24_NothingExtracted
    /\ (EveryFetchFailed ~> pc = "done")

\* C24 witness: a run over several URLs on both hosts has finished with
\* every fetch failed.
C24_Witness ==
    /\ EveryFetchFailed
    /\ pc = "done"
    /\ Len(urls) = MaxUrls
    /\ ret = <<>>

\* C29: in the summary of a finished run, successful + failed + skipped is
\* the number of URLs processed, no count is negative, and no URL is both
\* a non-empty body and an error record.
C29_SummaryPartition ==
    pc = "done" /\ urls # <<>> =>
        /\ SummaryReport.total = Len(urls)
        /\ SummaryReport.successful + SummaryReport.failed
             + SummaryReport.skipped = SummaryReport.total
        /\ SummaryReport.successful >= 0
        /\ SummaryReport.failed >= 0
        /\ SummaryReport.skipped >= 0
        /\ \A u \in Range(error_list) :
              Occurrences(error_list, u) = 1 /\ html_map[u] = ""
        /\ SummaryReport.failed = Cardinality(Range(error_list))

\* C29 witness: a finished run with one successful, one failed and one
\* skipped URL.
C29_Witness ==
    /\ pc = "done"
    /\ SummaryReport.successful = 1
    /\ SummaryReport.failed = 1
    /\ SummaryReport.skipped = 1

\* the fetches of domain d that ended as a failure
FailedFetches(d) ==
    {u \in DOMAIN task : task[u].pc = "raised" /\ Lower(HostOf(u)) = d}

\* C25: each fetch of scraper_agent.fetch_with_retries that ends as a
\* failure adds exactly 1 to the failure counter of its domain, so a domain
\* starting at 0 is not excluded before three of its fetches have failed.
C25_OneFailurePerFetch ==
    \A d \in Domains :
        /\ failures[d] = LoadFailures(store)[d] + Cardinality(FailedFetches(d))
        /\ (LoadFailures(store)[d] = 0
            /\ Cardinality(FailedFetches(d)) < FAILURE_THRESHOLD)
           => d \notin domains

\* C26 (step part): a step that issues a page request is not a step of a
\* fetch whose domain has entered the exclusion set during the run.
C26_RequestStep ==
    \A u \in DOMAIN task' :
        (task'[u].pc = "get" /\ (u \notin DOMAIN task \/ task[u].pc # "get"))
        => Lower(HostOf(u)) \notin domains \ LoadDomains(store)

\* C26: once a domain has entered the exclusion set, no further page
\* request is issued to it by any fetch of the run, including fetches of the
\* same domain that started earlier and are still retrying.
C26_NoRequestOnceExcluded == [][C26_RequestStep]_vars

\* C27: when the fetch that fetch_all_html invokes receives a status other
\* than 200, 503, 403 and 404 on its first or second page request, it does
\* not fail there but goes on to another attempt.
C27_OtherStatusRetried ==
    \A u \in DOMAIN task :
        LET n == Len(page_log)
        IN  (/\ fetcher = "pipeline_agent"
             /\ n >= 1
             /\ n < FETCH_RETRIES
             /\ page_log[n].kind = "http"
             /\ page_log[n].status \notin {200, 503} \cup NON_RETRYABLE_STATUS_CODES)
            => task[u].pc # "raised"

\* C28 (state part): a fetch issues at most 3 page requests and has ended
\* after the third; three responses that are all 503 or transport errors
\* end it as a failure after the delays 2s and 4s; a 403 or 404 ends it as a
\* failure at once; and a failed fetch has slept one delay fewer than it
\* issued page requests, so none after its last.
C28_RequestsBounded ==
    /\ Len(page_log) <= FETCH_RETRIES
    /\ \A u \in DOMAIN task :
          LET n == Len(page_log)
          IN  /\ n = FETCH_RETRIES => Terminated(task[u])
              /\ (n = FETCH_RETRIES /\ \A i \in 1..n : Transient(page_log[i]))
                 => task[u].pc = "raised" /\ delay_log = <<2, 4>>
              /\ (/\ n >= 1
                  /\ page_log[n].kind = "http"
                  /\ page_log[n].status \in NON_RETRYABLE_STATUS_CODES)
                 => /\ task[u].pc = "raised"
                    /\ Len(delay_log) = n - 1
                    /\ n = 1 => delay_log = <<>>
              /\ task[u].pc = "raised" => Len(delay_log) = n - 1

\* C28: every fetch terminates after at most 3 page requests: when all
\* attempts fail with 503 or a transport error it ends as a failure after
\* exactly two backoff delays (2s, then 4s), and a 403 or 404 ends the fetch
\* after a single request with no delay.
C28_FetchTerminates ==
    /\ []C28_RequestsBounded
    /\ <>(\A k \in 1..Len(urls) :
             urls[k] \in DOMAIN task /\ Terminated(task[urls[k]]))

\* C28 witness: a fetch has failed on its third page request after a 503
\* and two transport errors, having slept 2s and 4s.
C28_Witness ==
    /\ Len(page_log) = FETCH_RETRIES
    /\ page_log[1].kind = "http" /\ page_log[1].status = 503
    /\ page_log[2].kind = "ClientError" /\ page_log[3].kind = "ClientError"
    /\ task[urls[1]].pc = "raised"
    /\ delay_log = <<2, 4>>

\* C30: a fetch that has returned, with the empty outcome or with a body,
\* has left every failure counter and the exclusion set as they were.
C30_ReturnLeavesBlacklist ==
    \A u \in DOMAIN task :
        task[u].pc = "returned" =>
            /\ failures = LoadFailures(store)
            /\ domains = LoadDomains(store)
            /\ u \notin DOMAIN recorded

\* C30 witness: scraper_agent.fetch_with_retries returned a body on its
\* third page request for a domain whose counter stands at 2, after two
\* failed attempts.
C30_Witness ==
    /\ fetcher = "scraper_agent"
    /\ Len(page_log) = FETCH_RETRIES
    /\ task[urls[1]] = Returned("<html>")
    /\ failures[Lower(HostOf(urls[1]))] = FAILURE_THRESHOLD - 1

\* C31 (state part): the slots taken from the semaphore are the inference
\* calls that are running, so whenever the wrapper is not inside a call,
\* asleep before a retry included, both slots are available.
C31_SlotsFollowCalls ==
    /\ llm_semaphore + llm_inflight = LLM_CONCURRENCY_LIMIT
    /\ ex.pc # "call" => llm_semaphore = LLM_CONCURRENCY_LIMIT
    /\ ex.pc = "call" => llm_inflight > 0
    /\ pc = "raised" => llm_semaphore = LLM_CONCURRENCY_LIMIT

\* C31 (step part): the end of a call, by return or by exception, gives
\* its slot back in the same step, and a slot is taken only by the step
\* that issues a call.
C31_ReleaseStep ==
    /\ (ex.pc = "call" /\ ex'.pc # "call") =>
          llm_semaphore' = llm_semaphore + 1
    /\ llm_semaphore' < llm_semaphore => ex'.pc = "call"

\* C31: the inference concurrency slot is held only while an inference call
\* is running: it is released when the call returns or raises and is not
\* held during the 10-second rate-limit delay, so after every extraction,
\* successful or failed, both slots are available again.
C31_SlotHeldOnlyInCall == []C31_SlotsFollowCalls /\ [][C31_ReleaseStep]_vars

\* C31 witness: after a successful extraction the wrapper is asleep in its
\* second rate-limit delay for the next page, with both slots available.
C31_Witness ==
    /\ ex.pc = "sleep"
    /\ llm_delays = <<LLM_DELAY, LLM_DELAY>>
    /\ results # <<>>
    /\ llm_semaphore = LLM_CONCURRENCY_LIMIT

====
